---- MODULE Spec2Model ----
(***************************************************************************)
(* certificate-genie: the template editor (field placement, selection,     *)
(* replace-all save), the read-only certificate preview (scale, value      *)
(* resolution, navigation) and the generate wizard (row-set load, automatic *)
(* mapping, simulated batch run), modelled from the TypeScript sources.     *)
(*                                                                         *)
(* Strings the code inspects character by character (field keys, headers)  *)
(* are sequences of one-character strings; JavaScript numbers are exact     *)
(* rationals <<n, d>> with d > 0 in lowest terms.                           *)
(***************************************************************************)
EXTENDS Integers, Sequences, FiniteSets, TLC

VARIABLES
    \* ---- TemplateEditor (component state, part_000:270-277) ----
    isEditMode,         \* !!id                                  (281)
    templateName,       \* useState('')                          (270)
    templateDescription,\* useState('')                          (271)
    imageUrl,           \* useState('')                          (272)
    imageDimensions,    \* useState({width: 800, height: 600})   (273)
    fields,             \* useState<TemplateField[]>([])         (274)
    selectedFieldId,    \* useState<string | null>(null)         (275)
    saving,             \* useState(false)                       (277)
    existingTemplate,   \* data of the ['template', id] query    (284)
    clock,              \* last value read from Date.now()
    route,              \* "editor", or "templates" after navigate('/templates')
    savePc,             \* position of the running saveMutation.mutationFn
    saveClosure,        \* the state captured by the running mutationFn
    saveResult,         \* outcome of the last finished save
    editorToast,        \* last toast shown by the editor
    nOps,               \* number of editing events and save clicks so far
    editorWrites,       \* remote writes issued by the editor, in order
    \* ---- remote tables (part_001) ----
    dbTemplates,        \* certificate_templates rows (a sequence)
    dbFields,           \* template_fields rows (a sequence)
    dbNextId,           \* next gen_random_uuid()
    \* ---- Generate wizard (component state, part_000:1145-1154) ----
    step,               \* useState(1)                                    (1145)
    selectedTemplateId, \* useState(searchParams.get('template') || '')   (1146)
    csvData,            \* useState<CsvRow[]>([])                         (1147)
    csvHeaders,         \* useState<string[]>([])                         (1148)
    fieldMapping,       \* useState<Record<string, string>>({})           (1149)
    sendEmails,         \* useState(true)                                 (1150)
    emailColumn,        \* useState('email')                              (1151)
    isGenerating,       \* useState(false)                                (1152)
    showPreview,        \* useState(false)                                (1153)
    generationProgress, \* useState(0)                                    (1154)
    templates,          \* data of the ['templates', user.id] query       (1163)
    parsing,            \* Papa.parse calls whose callback has not run yet
    genPc,              \* position of the running handleGenerate
    genClosure,         \* the state captured by the running handleGenerate
    genToast,           \* last toast shown by the wizard
    nLoads,             \* row-set uploads so far
    nRuns,              \* generation runs started so far
    nEdits,             \* choices made on step 3 so far
    dbBatches,          \* batch_jobs rows
    dbCertificates,     \* certificates rows
    \* ---- CertificatePreview (component state, part_000:46-48) ----
    previewIndex,       \* useState(0)                                    (47)
    containerWidth,     \* useState(800)                                  (48)
    \* ---- Auth page (component state, src/pages/Auth.tsx:21-31) ----
    user,               \* useAuth().user                                 (21)
    isLoading,          \* useState(false)                                (24)
    email,              \* useState('')                                   (28)
    password,           \* useState('')                                   (29)
    fullName,           \* useState('')                                   (30)
    magicLinkEmail,     \* useState('')                                   (31)
    authPc,             \* the remote call a handler is waiting for
    authToast,          \* last toast shown by the Auth page
    authCalls,          \* remote calls issued by the Auth page, in order
    nSubmits            \* form submissions so far

editorVars == <<isEditMode, templateName, templateDescription, imageUrl,
                imageDimensions, fields, selectedFieldId, saving,
                existingTemplate, clock, route, savePc, saveClosure, saveResult,
                editorToast, nOps, editorWrites>>
dbEditorVars == <<dbTemplates, dbFields, dbNextId>>
wizardVars == <<step, selectedTemplateId, csvData, csvHeaders, fieldMapping,
                sendEmails, emailColumn, isGenerating, showPreview,
                generationProgress, templates, parsing, genPc, genClosure,
                genToast, nLoads, nRuns, nEdits>>
dbWizardVars == <<dbBatches, dbCertificates>>
previewVars == <<previewIndex, containerWidth>>
generateVars == <<wizardVars, dbWizardVars, previewVars>>
authVars == <<user, isLoading, email, password, fullName, magicLinkEmail,
              authPc, authToast, authCalls, nSubmits>>
vars == <<editorVars, dbEditorVars, wizardVars, dbWizardVars, previewVars,
          authVars>>

----------------------------------------------------------------------------
(* Bounds of the exploration *)

\* editing events (type, upload, add, edit, drag, remove) and save clicks per
\* editor session
MaxOps == 3
\* largest value Date.now() returns (readings are 0..MaxClock, non-decreasing)
MaxClock == 1

----------------------------------------------------------------------------
(* JavaScript values *)

\* isLoading of the template query: no data yet
Loading == [loading |-> TRUE]

Null == [null |-> TRUE]
Undefined == [undefined |-> TRUE]

Abs(i) == IF i < 0 THEN -i ELSE i

RECURSIVE GCD(_, _)
GCD(a, b) == IF b = 0 THEN a ELSE GCD(b, a % b)

\* the number n/d (d # 0) in lowest terms with a positive denominator
Rat(n, d) ==
    LET g == GCD(Abs(n), Abs(d))
        s == IF d < 0 THEN -1 ELSE 1
    IN  <<(s * n) \div g, (s * d) \div g>>

Num(i) == <<i, 1>>
RMul(a, b) == Rat(a[1] * b[1], a[2] * b[2])
RDiv(a, b) == Rat(a[1] * b[2], a[2] * b[1])
RLeq(a, b) == a[1] * b[2] <= b[1] * a[2]
RMin(a, b) == IF RLeq(a, b) THEN a ELSE b

\* Object spread {...f, ...updates}
Spread(f, updates) ==
    [k \in (DOMAIN f) \cup (DOMAIN updates) |->
        IF k \in DOMAIN updates THEN updates[k] ELSE f[k]]

\* property read f.k of an object (undefined when absent)
Prop(f, k) == IF k \in DOMAIN f THEN f[k] ELSE Undefined

\* Array.prototype.find: the first element satisfying Test, or undefined
Find(s, Test(_)) ==
    LET hits == SelectSeq(s, Test)
    IN  IF hits = <<>> THEN Undefined ELSE Head(hits)

\* Array.prototype.map
MapSeq(s, F(_)) == [i \in 1..Len(s) |-> F(s[i])]

----------------------------------------------------------------------------
(* TemplateEditor: constants and inputs *)

maxWidth == 800
maxHeight == 500

K_name == <<"n", "a", "m", "e">>
K_course == <<"c", "o", "u", "r", "s", "e">>
K_custom == <<"c", "u", "s", "t", "o", "m">>
K_NameSp == <<"N", "a", "m", "e", " ">>
K_empty == <<>>

\* the preset offered by the model (one of the six buttons of FIELD_PRESETS)
FIELD_PRESETS == { [key |-> K_name, label |-> "Participant Name"] }

\* the template the edit route opens
EditId == [uuid |-> 0]

\* natural sizes of the images a user uploads
UploadImages ==
    { [width |-> 1200, height |-> 600] }

\* natural sizes of uploaded images for the scale computation
DimSteps == 10
ImageGrid ==
    { [width |-> 200 * a, height |-> 100 * b] : a \in 1..DimSteps, b \in 1..DimSteps }

\* absolute (display-space) position at which a dragged label is dropped:
\* left of the visible canvas (negative) and below it (beyond its height)
DropPoints == { [x |-> -30, y |-> 610] }

\* values typed into the X / Y position inputs
TypedNumbers == { -20 }

\* edits made through the property panel, other than X and Y
PanelUpdates ==
    { [field_key |-> K_name] }

\* outcomes of a remote call: the client resolves to {data, error}
Outcomes == {"ok", "error"}

----------------------------------------------------------------------------
(* TemplateEditor: pure parts *)

\* a scale that fits the width only
EditorScale_widthOnly(dim) == RMin(Rat(maxWidth, dim.width), Num(1))

\* const scale = Math.min(maxWidth / w, maxHeight / h, 1)
EditorScale(dim) ==
    RMin(RMin(Rat(maxWidth, dim.width), Rat(maxHeight, dim.height)), Num(1))

\* <Stage width={w * scale} height={h * scale} scaleX={scale} scaleY={scale}>
StageSize(dim) ==
    [width  |-> RMul(Num(dim.width), EditorScale(dim)),
     height |-> RMul(Num(dim.height), EditorScale(dim))]

\* A <Text x={field.x} y={field.y}> is a child of the scaled Stage: its x and y
\* attributes are in the Stage's local coordinates and its absolute position
\* on screen is the attribute times the Stage scale.
TextAbsolute(f, scale) == [x |-> RMul(f.x, scale), y |-> RMul(f.y, scale)]

\* a node whose local position is taken to be its position on screen
NodeAt_unscaled(absolute, scale) ==
    [x |-> absolute.x, y |-> absolute.y, absolute |-> absolute]

\* The node a drag leaves at the absolute (on-screen) position `absolute` on
\* a Stage scaled by `scale`: its local attributes, which e.target.x() and
\* e.target.y() return, are the absolute position divided by the scale.
NodeAt(absolute, scale) ==
    [x |-> RDiv(absolute.x, scale), y |-> RDiv(absolute.y, scale),
     absolute |-> absolute]

\* The node a drag leaves behind (e.target of onDragEnd) when the label is
\* dropped at absolute position `drop` on a Stage scaled by `scale`: the drag
\* moves the node to that absolute position, which sets its local attributes.
DraggedNode(drop, scale) ==
    NodeAt([x |-> Num(drop.x), y |-> Num(drop.y)], scale)

\* const newField = {...}  (addField, lines 370-380)
NewField(preset, now, dim) ==
    [id          |-> [temp |-> now],
     field_key   |-> IF preset = Undefined THEN K_custom ELSE preset.key,
     label       |-> IF preset = Undefined THEN "Custom Field" ELSE preset.label,
     x           |-> Rat(dim.width, 2),
     y           |-> Rat(dim.height, 2),
     font_size   |-> 32,
     font_family |-> "Arial",
     font_color  |-> "#000000",
     text_align  |-> "center"]

\* fields.map(f => f.id === fieldId ? { ...f, ...updates } : f)
updateField(fs, fieldId, updates) ==
    [i \in 1..Len(fs) |->
        IF fs[i].id = fieldId THEN Spread(fs[i], updates) ELSE fs[i]]

\* fields.filter(f => f.id !== fieldId)
removeFieldList(fs, fieldId) ==
    LET Keep(f) == f.id # fieldId IN SelectSeq(fs, Keep)

\* if (selectedFieldId === fieldId) setSelectedFieldId(null)
removeFieldSelection(sel, fieldId) == IF sel = fieldId THEN Null ELSE sel

\* a drag commit that stores the on-screen position of the label
handleDragEnd_display(fs, fieldId, target) ==
    updateField(fs, fieldId, [x |-> target.absolute.x, y |-> target.absolute.y])

\* updateField(fieldId, { x: e.target.x(), y: e.target.y() })
handleDragEnd(fs, fieldId, target) ==
    updateField(fs, fieldId, [x |-> target.x, y |-> target.y])

\* const selectedField = fields.find(f => f.id === selectedFieldId)
selectedField(fs, sel) ==
    LET Test(f) == f.id = sel IN Find(fs, Test)

\* {selectedField && (<Card> Field Properties ...)}
PanelVisible == selectedField(fields, selectedFieldId) # Undefined

\* the editor body is rendered (not the "Loading..." placeholder, 494-502)
EditorShown == route = "editor" /\ existingTemplate # Loading

\* the Stage and the labels are rendered ({!imageUrl ? ... : ...}, 726-825)
CanvasShown == EditorShown /\ imageUrl # ""

----------------------------------------------------------------------------
(* Remote tables certificate_templates and template_fields *)

\* rows of template_fields the session starts from (written by earlier saves)
PersistedField(n, key, label, px, py) ==
    [id          |-> [uuid |-> n],
     template_id |-> EditId,
     field_key   |-> key,
     label       |-> label,
     x           |-> px,
     y           |-> py,
     font_size   |-> 32,
     font_family |-> "Arial",
     font_color  |-> "#000000",
     text_align  |-> "center",
     max_width   |-> Null]

InitialFieldSets ==
    { << PersistedField(1, K_name, "Participant Name", Rat(725, 2), Num(120)),
         PersistedField(2, K_course, "Course Name", Num(400), Num(300)) >> }

InitialTemplate ==
    [id |-> EditId, name |-> "Course Certificate", description |-> "",
     image_url |-> "stored.png", image_width |-> 800, image_height |-> 600]

\* .from('template_fields') rows of one template
FieldsOf(rows, tid) ==
    LET Mine(r) == r.template_id = tid IN SelectSeq(rows, Mine)

\* the select of one template with its template_fields: .eq('id', id).single()
QueryTemplate(tid) ==
    LET Is(t) == t.id = tid
        t == Head(SelectSeq(dbTemplates, Is))
    IN  Spread(t, [template_fields |-> FieldsOf(dbFields, tid)])

\* .update({...}).eq('id', id)
DbUpdateTemplate(rows, tid, c) ==
    [i \in 1..Len(rows) |->
        IF rows[i].id = tid
        THEN Spread(rows[i],
                [name         |-> c.templateName,
                 description  |-> c.templateDescription,
                 image_url    |-> c.imageUrl,
                 image_width  |-> c.imageDimensions.width,
                 image_height |-> c.imageDimensions.height])
        ELSE rows[i]]

\* .insert({...}).select().single()
DbInsertTemplate(rows, newId, c) ==
    Append(rows,
        [id |-> newId, name |-> c.templateName,
         description  |-> c.templateDescription,
         image_url    |-> c.imageUrl,
         image_width  |-> c.imageDimensions.width,
         image_height |-> c.imageDimensions.height])

\* .delete().eq('template_id', id)
DbDeleteFields(rows, tid) ==
    LET Other(r) == r.template_id # tid IN SelectSeq(rows, Other)

\* the object built for one field by fields.map(f => ({...})) (456-467); an
\* undefined max_width is dropped from the request and stored as NULL
FieldRow(f, tid, newId) ==
    [id          |-> newId,
     template_id |-> tid,
     field_key   |-> f.field_key,
     label       |-> f.label,
     x           |-> f.x,
     y           |-> f.y,
     font_size   |-> f.font_size,
     font_family |-> f.font_family,
     font_color  |-> f.font_color,
     text_align  |-> f.text_align,
     max_width   |-> IF Prop(f, "max_width") = Undefined THEN Null
                     ELSE f.max_width]

\* .from('template_fields').insert(fields.map(...))
DbInsertFields(rows, fs, tid, firstId) ==
    rows \o [i \in 1..Len(fs) |-> FieldRow(fs[i], tid, [uuid |-> firstId + i - 1])]

\* (existingTemplate.template_fields).map(f => ({...f, x: Number(f.x), y: Number(f.y)}))
PopulateFields(rows) ==
    [i \in 1..Len(rows) |-> Spread(rows[i], [x |-> rows[i].x, y |-> rows[i].y])]

----------------------------------------------------------------------------
(* TemplateEditor: events *)

\* the ['template', id] query resolves and the populate effect (300-317) runs
\* on the new data; a failed query leaves the form as it is
FetchTemplate ==
    /\ UNCHANGED <<generateVars, authVars>>
    /\ route = "editor" /\ isEditMode
    /\ \E outcome \in Outcomes :
        LET data == QueryTemplate(EditId) IN
        IF outcome = "ok"
        THEN /\ data # existingTemplate
             /\ existingTemplate' = data
             /\ templateName' = data.name
             /\ templateDescription' = data.description
             /\ imageUrl' = data.image_url
             /\ imageDimensions' = [width |-> data.image_width,
                                    height |-> data.image_height]
             /\ fields' = PopulateFields(data.template_fields)
        ELSE /\ existingTemplate = Loading
             /\ existingTemplate' = Undefined
             /\ UNCHANGED <<templateName, templateDescription, imageUrl,
                            imageDimensions, fields>>
    /\ UNCHANGED <<isEditMode, selectedFieldId, saving, clock, route, savePc,
                   saveClosure, saveResult, editorToast, nOps,
                   editorWrites, dbEditorVars>>

\* onChange of the Template Name input (534)
SetTemplateName ==
    /\ UNCHANGED <<generateVars, authVars>>
    /\ EditorShown /\ nOps < MaxOps
    /\ \E v \in {"", "Award"} :
        /\ v # templateName
        /\ templateName' = v
    /\ nOps' = nOps + 1
    /\ UNCHANGED <<isEditMode, templateDescription, imageUrl, imageDimensions,
                   fields, selectedFieldId, saving, existingTemplate, clock,
                   route, savePc, saveClosure, saveResult, editorToast,
                   editorWrites, dbEditorVars>>

\* handleImageUpload with its img.onload / img.onerror (326-366)
ImageUploadOf(img, result) ==
    /\ UNCHANGED <<generateVars, authVars>>
    /\ EditorShown /\ nOps < MaxOps
    /\ CASE result = "uploadError" ->
              /\ editorToast' = "Upload failed"
              /\ UNCHANGED <<imageUrl, imageDimensions>>
         [] result = "onload" ->
              /\ imageDimensions' = img
              /\ imageUrl' = "uploaded.png"
              /\ UNCHANGED editorToast
         [] result = "onerror" ->
              /\ imageUrl' = "uploaded.png"
              /\ UNCHANGED <<imageDimensions, editorToast>>
    /\ nOps' = nOps + 1
    /\ UNCHANGED <<isEditMode, templateName, templateDescription, fields,
                   selectedFieldId, saving, existingTemplate, clock, route,
                   savePc, saveClosure, saveResult, editorWrites,
                   dbEditorVars>>

ImageUpload ==
    \E img \in UploadImages, result \in {"uploadError", "onload", "onerror"} :
        ImageUploadOf(img, result)

\* addField(preset) / addField()  (369-383); the buttons are disabled={!imageUrl}
AddFieldWith(preset, now) ==
    /\ UNCHANGED <<generateVars, authVars>>
    /\ CanvasShown /\ nOps < MaxOps
    /\ now \in clock..MaxClock
    /\ LET newField == NewField(preset, now, imageDimensions) IN
        /\ clock' = now
        /\ fields' = Append(fields, newField)
        /\ selectedFieldId' = newField.id
    /\ nOps' = nOps + 1
    /\ UNCHANGED <<isEditMode, templateName, templateDescription, imageUrl,
                   imageDimensions, saving, existingTemplate, route, savePc,
                   saveClosure, saveResult, editorToast, editorWrites,
                   dbEditorVars>>

AddField ==
    \E preset \in FIELD_PRESETS \cup {Undefined}, now \in 0..MaxClock :
        AddFieldWith(preset, now)

\* onClick / onTap of a canvas label (803-804) or onClick of a list row (595)
SelectFieldAt(i, via) ==
    /\ UNCHANGED <<generateVars, authVars>>
    /\ EditorShown
    /\ i \in 1..Len(fields)
    /\ via = "label" => CanvasShown
    /\ selectedFieldId' = fields[i].id
    /\ UNCHANGED <<isEditMode, templateName, templateDescription, imageUrl,
                   imageDimensions, fields, saving, existingTemplate, clock,
                   route, savePc, saveClosure, saveResult, editorToast, nOps,
                   editorWrites, dbEditorVars>>

SelectField ==
    \E i \in 1..Len(fields), via \in {"label", "list"} : SelectFieldAt(i, via)

\* Stage onMouseDown with e.target === e.target.getStage()  (778-782)
StageMouseDown ==
    /\ UNCHANGED <<generateVars, authVars>>
    /\ CanvasShown
    /\ selectedFieldId' = Null
    /\ UNCHANGED <<isEditMode, templateName, templateDescription, imageUrl,
                   imageDimensions, fields, saving, existingTemplate, clock,
                   route, savePc, saveClosure, saveResult, editorToast, nOps,
                   editorWrites, dbEditorVars>>

\* an input of the Field Properties card (627-716), shown for selectedField
PanelEditWith(updates) ==
    /\ UNCHANGED <<generateVars, authVars>>
    /\ EditorShown /\ PanelVisible /\ nOps < MaxOps
    /\ LET sf == selectedField(fields, selectedFieldId) IN
        fields' = updateField(fields, sf.id, updates)
    /\ nOps' = nOps + 1
    /\ UNCHANGED <<isEditMode, templateName, templateDescription, imageUrl,
                   imageDimensions, selectedFieldId, saving, existingTemplate,
                   clock, route, savePc, saveClosure, saveResult, editorToast,
                   editorWrites, dbEditorVars>>

\* onChange of the X / Y inputs: updateField(id, { x: Number(e.target.value) })
TypedPosition ==
    { [x |-> Num(v)] : v \in TypedNumbers } \cup { [y |-> Num(v)] : v \in TypedNumbers }

PanelEdit ==
    \E updates \in PanelUpdates \cup TypedPosition : PanelEditWith(updates)

\* onDragEnd of a canvas label (805): handleDragEnd(field.id, e)
DragEndAt(i, drop) ==
    /\ UNCHANGED <<generateVars, authVars>>
    /\ CanvasShown /\ nOps < MaxOps
    /\ i \in 1..Len(fields)
    /\ LET target == DraggedNode(drop, EditorScale(imageDimensions)) IN
        fields' = handleDragEnd(fields, fields[i].id, target)
    /\ nOps' = nOps + 1
    /\ UNCHANGED <<isEditMode, templateName, templateDescription, imageUrl,
                   imageDimensions, selectedFieldId, saving, existingTemplate,
                   clock, route, savePc, saveClosure, saveResult, editorToast,
                   editorWrites, dbEditorVars>>

DragEnd == \E i \in 1..Len(fields), drop \in DropPoints : DragEndAt(i, drop)

\* onDragEnd of a label that is picked up and let go where it is drawn
DragBackAt(i) ==
    /\ UNCHANGED <<generateVars, authVars>>
    /\ CanvasShown /\ nOps < MaxOps
    /\ i \in 1..Len(fields)
    /\ LET scale == EditorScale(imageDimensions)
           target == NodeAt(TextAbsolute(fields[i], scale), scale) IN
        fields' = handleDragEnd(fields, fields[i].id, target)
    /\ nOps' = nOps + 1
    /\ UNCHANGED <<isEditMode, templateName, templateDescription, imageUrl,
                   imageDimensions, selectedFieldId, saving, existingTemplate,
                   clock, route, savePc, saveClosure, saveResult, editorToast,
                   editorWrites, dbEditorVars>>

DragBack == \E i \in 1..Len(fields) : DragBackAt(i)

\* the trash button of a list row (604-607): removeField(field.id)
RemoveFieldAt(i) ==
    /\ UNCHANGED <<generateVars, authVars>>
    /\ EditorShown /\ nOps < MaxOps
    /\ i \in 1..Len(fields)
    /\ fields' = removeFieldList(fields, fields[i].id)
    /\ selectedFieldId' = removeFieldSelection(selectedFieldId, fields[i].id)
    /\ nOps' = nOps + 1
    /\ UNCHANGED <<isEditMode, templateName, templateDescription, imageUrl,
                   imageDimensions, saving, existingTemplate, clock, route,
                   savePc, saveClosure, saveResult, editorToast,
                   editorWrites, dbEditorVars>>

RemoveField == \E i \in 1..Len(fields) : RemoveFieldAt(i)

----------------------------------------------------------------------------
(* TemplateEditor: saveMutation (405-485) *)

\* onSuccess (475-480)
SaveSucceeds ==
    /\ saving' = FALSE
    /\ editorToast' = "Saved"
    /\ route' = "templates"
    /\ saveResult' = "success"
    /\ savePc' = "idle"

\* an onError that would leave the editor as onSuccess does
SaveFails_navigates ==
    /\ saving' = FALSE
    /\ editorToast' = "Error"
    /\ route' = "templates"
    /\ saveResult' = "error"
    /\ savePc' = "idle"

\* onError (481-484)
SaveFails ==
    /\ saving' = FALSE
    /\ editorToast' = "Error"
    /\ route' = route
    /\ saveResult' = "error"
    /\ savePc' = "idle"

\* after the template row is written: if (fields.length > 0 && templateId)
\* insert the fields, else return templateId
InsertFieldsOrReturn(c, writes) ==
    IF Len(c.fields) > 0
    THEN /\ editorWrites' = Append(writes, "insert_fields")
         /\ savePc' = "insert"
         /\ UNCHANGED <<saving, editorToast, route, saveResult>>
    ELSE /\ editorWrites' = writes
         /\ SaveSucceeds

\* saveMutation.mutate(): mutationFn runs up to its first await (406-426 / 434-445)
SaveMutate ==
    /\ UNCHANGED <<generateVars, authVars>>
    /\ EditorShown /\ ~saving /\ savePc = "idle" /\ nOps < MaxOps
    /\ nOps' = nOps + 1
    /\ IF imageUrl = "" \/ templateName = ""
       THEN /\ SaveFails
            /\ UNCHANGED <<saveClosure, editorWrites>>
       ELSE /\ saving' = TRUE
            /\ saveClosure' =
                  [fields |-> fields, templateName |-> templateName,
                   templateDescription |-> templateDescription,
                   imageUrl |-> imageUrl, imageDimensions |-> imageDimensions,
                   templateId |-> IF isEditMode THEN EditId ELSE Undefined]
            /\ IF isEditMode
               THEN /\ editorWrites' = Append(editorWrites, "update_template")
                    /\ savePc' = "update"
               ELSE /\ editorWrites' = Append(editorWrites, "insert_template")
                    /\ savePc' = "create"
            /\ UNCHANGED <<editorToast, route, saveResult>>
    /\ UNCHANGED <<isEditMode, templateName, templateDescription, imageUrl,
                   imageDimensions, fields, selectedFieldId, existingTemplate,
                   clock, dbEditorVars>>

\* the template update resolves (417-428), then the delete is issued (431)
SaveUpdateDoneWith(outcome) ==
    /\ UNCHANGED <<generateVars, authVars>>
    /\ savePc = "update"
    /\ IF outcome = "ok"
        THEN /\ dbTemplates' = DbUpdateTemplate(dbTemplates, EditId, saveClosure)
             /\ editorWrites' = Append(editorWrites, "delete_fields")
             /\ savePc' = "delete"
             /\ UNCHANGED <<saving, editorToast, route, saveResult>>
        ELSE /\ SaveFails
             /\ UNCHANGED <<dbTemplates, editorWrites>>
    /\ UNCHANGED <<isEditMode, templateName, templateDescription, imageUrl,
                   imageDimensions, fields, selectedFieldId, existingTemplate,
                   clock, saveClosure, nOps, dbFields,
                   dbNextId>>

SaveUpdateDone == \E outcome \in Outcomes : SaveUpdateDoneWith(outcome)

\* the delete of the old fields resolves; its result is not read (431)
SaveDeleteDoneWith(outcome) ==
    /\ UNCHANGED <<generateVars, authVars>>
    /\ savePc = "delete"
    /\ dbFields' = IF outcome = "ok" THEN DbDeleteFields(dbFields, EditId)
                   ELSE dbFields
    /\ InsertFieldsOrReturn(saveClosure, editorWrites)
    /\ UNCHANGED <<isEditMode, templateName, templateDescription, imageUrl,
                   imageDimensions, fields, selectedFieldId, existingTemplate,
                   clock, saveClosure, nOps, dbTemplates,
                   dbNextId>>

SaveDeleteDone == \E outcome \in Outcomes : SaveDeleteDoneWith(outcome)

\* the template insert resolves (434-448)
SaveCreateDoneWith(outcome) ==
    /\ UNCHANGED <<generateVars, authVars>>
    /\ savePc = "create"
    /\ IF outcome = "ok"
        THEN /\ dbTemplates' =
                  DbInsertTemplate(dbTemplates, [uuid |-> dbNextId], saveClosure)
             /\ dbNextId' = dbNextId + 1
             /\ saveClosure' = [saveClosure EXCEPT !.templateId = [uuid |-> dbNextId]]
             /\ InsertFieldsOrReturn(saveClosure, editorWrites)
        ELSE /\ SaveFails
             /\ UNCHANGED <<dbTemplates, dbNextId, saveClosure, editorWrites>>
    /\ UNCHANGED <<isEditMode, templateName, templateDescription, imageUrl,
                   imageDimensions, fields, selectedFieldId, existingTemplate,
                   clock, nOps, dbFields>>

SaveCreateDone == \E outcome \in Outcomes : SaveCreateDoneWith(outcome)

\* a fields insert whose failure takes the template row back out
SaveInsertDoneWith_rollback(outcome) ==
    /\ UNCHANGED <<generateVars, authVars>>
    /\ savePc = "insert"
    /\ IF outcome = "ok"
        THEN /\ dbFields' = DbInsertFields(dbFields, saveClosure.fields,
                                           saveClosure.templateId, dbNextId)
             /\ dbNextId' = dbNextId + Len(saveClosure.fields)
             /\ SaveSucceeds
             /\ UNCHANGED <<editorWrites, dbTemplates>>
        ELSE /\ SaveFails
             /\ editorWrites' = Append(editorWrites, "delete_template")
             /\ dbTemplates' = SelectSeq(dbTemplates,
                                   LAMBDA t : t.id # saveClosure.templateId)
             /\ UNCHANGED <<dbFields, dbNextId>>
    /\ UNCHANGED <<isEditMode, templateName, templateDescription, imageUrl,
                   imageDimensions, fields, selectedFieldId, existingTemplate,
                   clock, saveClosure, nOps>>

\* the insert of the fields resolves (453-470)
SaveInsertDoneWith(outcome) ==
    /\ UNCHANGED <<generateVars, authVars>>
    /\ savePc = "insert"
    /\ IF outcome = "ok"
        THEN /\ dbFields' = DbInsertFields(dbFields, saveClosure.fields,
                                           saveClosure.templateId, dbNextId)
             /\ dbNextId' = dbNextId + Len(saveClosure.fields)
             /\ SaveSucceeds
        ELSE /\ SaveFails
             /\ UNCHANGED <<dbFields, dbNextId>>
    /\ UNCHANGED <<isEditMode, templateName, templateDescription, imageUrl,
                   imageDimensions, fields, selectedFieldId, existingTemplate,
                   clock, saveClosure, nOps, editorWrites,
                   dbTemplates>>

SaveInsertDone == \E outcome \in Outcomes : SaveInsertDoneWith(outcome)

----------------------------------------------------------------------------
(* The editor session *)

\* the state of a TemplateEditor that has just been constructed
EditorFresh ==
    /\ isEditMode \in BOOLEAN
    /\ templateName = ""
    /\ templateDescription = ""
    /\ imageUrl = ""
    /\ imageDimensions = [width |-> 800, height |-> 600]
    /\ fields = <<>>
    /\ selectedFieldId = Null
    /\ saving = FALSE
    /\ existingTemplate = IF isEditMode THEN Loading ELSE Undefined
    /\ clock = 0
    /\ savePc = "idle"
    /\ saveClosure = Undefined
    /\ saveResult = "none"
    /\ editorToast = "none"
    /\ nOps = 0
    /\ editorWrites = <<>>

EditorMounted == EditorFresh /\ route = "editor"

\* the tables before an editor session: one stored template
EditorDatabase ==
    /\ dbTemplates = <<InitialTemplate>>
    /\ dbFields \in InitialFieldSets
    /\ dbNextId = 3

\* the Save Template button, disabled={saving || !imageUrl || !templateName}
\* (834-837), calls saveMutation.mutate()
SaveClick ==
    /\ imageUrl # "" /\ templateName # ""
    /\ SaveMutate

EditorNext ==
    \/ FetchTemplate
    \/ SetTemplateName
    \/ ImageUpload
    \/ AddField
    \/ SelectField
    \/ StageMouseDown
    \/ PanelEdit
    \/ DragEnd
    \/ RemoveField
    \/ SaveClick
    \/ SaveUpdateDone
    \/ SaveDeleteDone
    \/ SaveCreateDone
    \/ SaveInsertDone

----------------------------------------------------------------------------
(* Strings as sequences of characters *)

\* String.prototype.toLowerCase on one character
LowerChar(c) ==
    CASE c = "A" -> "a" [] c = "B" -> "b" [] c = "C" -> "c" [] c = "D" -> "d"
      [] c = "E" -> "e" [] c = "F" -> "f" [] c = "G" -> "g" [] c = "H" -> "h"
      [] c = "I" -> "i" [] c = "J" -> "j" [] c = "K" -> "k" [] c = "L" -> "l"
      [] c = "M" -> "m" [] c = "N" -> "n" [] c = "O" -> "o" [] c = "P" -> "p"
      [] c = "Q" -> "q" [] c = "R" -> "r" [] c = "S" -> "s" [] c = "T" -> "t"
      [] c = "U" -> "u" [] c = "V" -> "v" [] c = "W" -> "w" [] c = "X" -> "x"
      [] c = "Y" -> "y" [] c = "Z" -> "z" [] OTHER -> c

\* h.toLowerCase()
toLowerCase(str) == [i \in 1..Len(str) |-> LowerChar(str[i])]

\* str.includes(part)
includes(str, part) ==
    \E i \in 0..(Len(str) - Len(part)) : SubSeq(str, i + 1, i + Len(part)) = part

\* a string is truthy when it is not empty
Truthy(str) == str # <<>>

\* a text column that holds NULL (no string of characters equals it)
SqlNull == <<"NULL">>

H_name == <<"n", "a", "m", "e">>
H_nameSp == <<"n", "a", "m", "e", " ">>
H_email == <<"e", "m", "a", "i", "l">>
H_Course == <<"C", "o", "u", "r", "s", "e">>
H_course == <<"c", "o", "u", "r", "s", "e">>
H_WorkEmail == <<"W", "o", "r", "k", " ", "E", "m", "a", "i", "l">>
H_empty == <<>>
K_COURSE == <<"C", "O", "U", "R", "S", "E">>
S_email == <<"e", "m", "a", "i", "l">>
S_Unknown == <<"U", "n", "k", "n", "o", "w", "n">>
V_Ada == <<"A", "d", "a">>
V_Bo == <<"B", "o">>
V_Cy == <<"C", "y">>
V_Di == <<"D", "i">>
V_mail1 == <<"a", "@", "x">>
V_mail2 == <<"b", "@", "x">>
V_TLA == <<"T", "L", "A">>
V_empty == <<>>

----------------------------------------------------------------------------
(* Generate wizard and CertificatePreview: inputs *)

\* rows per uploaded row-set
MaxRows == 3
\* row-set uploads per wizard session
MaxLoads == 2
\* generation runs per wizard session
MaxRuns == 1
\* choices made on step 3 (a column, the e-mail switch) per wizard session
MaxEdits == 1

\* selectedTemplateId === ''
NoTemplate == [empty |-> TRUE]

\* the rows of certificate_templates the signed-in user owns, newest first:
\* a landscape template and a portrait one
StoredTemplates ==
    << [id |-> [uuid |-> 10], name |-> "Course Certificate", description |-> "",
        image_url |-> "landscape.png", image_width |-> 800, image_height |-> 600],
       [id |-> [uuid |-> 20], name |-> "Badge", description |-> "",
        image_url |-> "portrait.png", image_width |-> 600, image_height |-> 2000] >>

StoredField(n, tid, key, px, py) ==
    [id |-> [uuid |-> n], template_id |-> [uuid |-> tid], field_key |-> key,
     label |-> "Field", x |-> px, y |-> py, font_size |-> 32,
     font_family |-> "Arial", font_color |-> "#000000",
     text_align |-> "center", max_width |-> Null]

\* the rows of template_fields of those templates
StoredFields ==
    << StoredField(11, 10, K_name, Num(400), Num(300)),
       StoredField(12, 10, K_COURSE, Rat(725, 2), Num(450)),
       StoredField(21, 20, K_NameSp, Num(300), Num(1000)),
       StoredField(22, 20, K_empty, Num(-10), Num(2100)) >>

\* the files a user uploads, as Papa.parse reads them with header: true:
\* meta.fields and the rows (a row shorter than the header lacks the
\* trailing columns); the last file has a header line only
CsvFiles ==
    { [headers |-> <<H_name, H_email>>,
       rows |-> << (H_name :> V_Ada) @@ (H_email :> V_mail1),
                   (H_name :> V_empty) @@ (H_email :> V_mail2),
                   (H_name :> V_Cy),
                   (H_name :> V_Di) @@ (H_email :> V_empty) >>],
      [headers |-> <<H_Course, H_course, H_WorkEmail, H_email>>,
       rows |-> << (H_Course :> V_TLA) @@ (H_course :> V_empty)
                       @@ (H_WorkEmail :> V_mail1) @@ (H_email :> V_mail2) >>],
      [headers |-> <<H_empty, H_nameSp>>,
       rows |-> << (H_empty :> V_Ada) @@ (H_nameSp :> V_Bo),
                   (H_empty :> V_Cy) >>],
      [headers |-> <<H_name>>, rows |-> <<>>] }

\* results.data: the rows of a file, of which the first MaxRows are read
RowsOf(file) ==
    SubSeq(file.rows, 1, IF MaxRows < Len(file.rows) THEN MaxRows ELSE Len(file.rows))

\* containerRef.current.offsetWidth as the browser lays the dialog out
OffsetWidths == {848, 348}

\* heights the dialog (max-h-[90vh]) can leave for the canvas
AvailableHeights == {600, 400}

\* the outcome of one remote write: supabase-js resolves to {error: null} or
\* to {error}; it does not throw
WriteOutcomes == {"ok", "error"}

----------------------------------------------------------------------------
(* CertificatePreview: pure parts *)

\* the object {}
EmptyObject == [k \in {} |-> <<>>]

\* entries of the record picker: csvData.slice(0, 20)
PickerLimit == 20

\* template?.image_width || 800
templateWidth(template) ==
    IF template = Null \/ template.image_width = 0 THEN 800 ELSE template.image_width

\* template?.image_height || 600
templateHeight(template) ==
    IF template = Null \/ template.image_height = 0 THEN 600 ELSE template.image_height

\* const scale = Math.min(containerWidth / templateWidth, 0.9)
PreviewScale(template, width) ==
    RMin(Rat(width, templateWidth(template)), Rat(9, 10))

\* scaledWidth, scaledHeight: the size of the preview Stage
PreviewStageSize(template, width) ==
    [width |-> RMul(Num(templateWidth(template)), PreviewScale(template, width)),
     height |-> RMul(Num(templateHeight(template)), PreviewScale(template, width))]

\* setContainerWidth(containerRef.current.offsetWidth - 48)
updateWidth(offsetWidth) == offsetWidth - 48

\* const currentRow = csvData[previewIndex] || {}
currentRow(data, index) ==
    IF index + 1 \in DOMAIN data THEN data[index + 1] ELSE EmptyObject

\* `{{${fieldKey}}}`
Placeholder(fieldKey) == <<"{", "{">> \o fieldKey \o <<"}", "}">>

\* getFieldValue without the test of the cell's value
getFieldValue_anyCell(fieldKey, mapping, row) ==
    IF /\ fieldKey \in DOMAIN mapping
       /\ mapping[fieldKey] \in DOMAIN row
    THEN row[mapping[fieldKey]]
    ELSE Placeholder(fieldKey)

\* getFieldValue: csvColumn && currentRow[csvColumn] ? the cell : the placeholder
getFieldValue(fieldKey, mapping, row) ==
    IF /\ fieldKey \in DOMAIN mapping
       /\ Truthy(mapping[fieldKey])
       /\ mapping[fieldKey] \in DOMAIN row
       /\ Truthy(row[mapping[fieldKey]])
    THEN row[mapping[fieldKey]]
    ELSE Placeholder(fieldKey)

\* setPreviewIndex((i) => Math.max(0, i - 1))
handlePrev(i) == IF i - 1 > 0 THEN i - 1 ELSE 0

\* setPreviewIndex((i) => Math.min(csvData.length - 1, i + 1))
handleNext(i, data) == IF Len(data) - 1 < i + 1 THEN Len(data) - 1 ELSE i + 1

\* the values of the record picker's items
PickerValues(data) ==
    {i \in 0..(Len(data) - 1) : i < PickerLimit}

\* Object.keys(row): the columns of a parsed row, in header order
ObjectKeys(row, headers) == SelectSeq(headers, LAMBDA h : h \in DOMAIN row)

\* `Record ${i + 1}` for i < 20
RecordLabel(i) ==
    LET digits == <<"0", "1", "2", "3", "4", "5", "6", "7", "8", "9">>
        n == i + 1
    IN  <<"R", "e", "c", "o", "r", "d", " ">>
           \o (IF n >= 10 THEN <<digits[(n \div 10) + 1]>> ELSE <<>>)
           \o <<digits[(n % 10) + 1]>>

\* the label of entry i of the record picker:
\* row[fieldMapping.name || Object.keys(row)[0]] || `Record ${i + 1}`
PickerLabel(row, mapping, headers, i) ==
    LET keys == ObjectKeys(row, headers)
        value == IF K_name \in DOMAIN mapping /\ Truthy(mapping[K_name])
                 THEN IF mapping[K_name] \in DOMAIN row
                      THEN row[mapping[K_name]] ELSE <<>>
                 ELSE IF keys # <<>> THEN row[Head(keys)] ELSE <<>>
    IN  IF Truthy(value) THEN value ELSE RecordLabel(i)

\* the attributes of the Text node the preview draws for a field
PreviewText(field, scale, mapping, row) ==
    [x |-> RMul(field.x, scale),
     y |-> RMul(field.y, scale),
     text |-> getFieldValue(field.field_key, mapping, row),
     fontSize |-> RMul(Num(field.font_size), scale)]

----------------------------------------------------------------------------
(* Generate wizard: pure parts *)

\* templates?.find(t => t.id === selectedTemplateId); a pending query
\* (templates undefined) is the empty list, for which find and map agree
selectedTemplate(ts, id) == Find(ts, LAMBDA t : t.id = id)

\* the select of the templates with their template_fields, newest first
QueryTemplates ==
    MapSeq(dbTemplates,
           LAMBDA t : Spread(t, [template_fields |-> FieldsOf(dbFields, t.id)]))

\* template={selectedTemplate || null}
PreviewTemplate(ts, id) ==
    IF selectedTemplate(ts, id) = Undefined THEN Null ELSE selectedTemplate(ts, id)

\* (selectedTemplate?.template_fields as any[]) || []
templateFieldsOf(ts, id) ==
    IF selectedTemplate(ts, id) = Undefined
    THEN <<>>
    ELSE selectedTemplate(ts, id).template_fields

\* headers.find(h => h.toLowerCase() === field.field_key.toLowerCase()), as
\* the list of all such headers in header order
MatchingHeaders(headers, fieldKey) ==
    SelectSeq(headers, LAMBDA h : toLowerCase(h) = toLowerCase(fieldKey))

\* the auto-mapping built by the forEach: a key is assigned its first
\* matching header when that header is truthy
AutoMap(tplFields, headers) ==
    LET keys == {tplFields[i].field_key : i \in DOMAIN tplFields}
        Mapped(k) == /\ MatchingHeaders(headers, k) # <<>>
                     /\ Truthy(Head(MatchingHeaders(headers, k)))
    IN  [k \in {kk \in keys : Mapped(kk)} |-> Head(MatchingHeaders(headers, k))]

\* headers.find(h => h.toLowerCase().includes('email')), as a list
EmailHeaders(headers) ==
    SelectSeq(headers, LAMBDA h : includes(toLowerCase(h), S_email))

\* if (emailHeader) setEmailColumn(emailHeader)
DetectEmailColumn(headers, current) ==
    IF EmailHeaders(headers) # <<>> /\ Truthy(Head(EmailHeaders(headers)))
    THEN Head(EmailHeaders(headers))
    ELSE current

\* Math.round(x) for x = n/d >= 0
MathRound(n, d) == (2 * n + d) \div (2 * d)

\* recipient_name: row[fieldMapping.name || 'name'] || 'Unknown'
RecipientName(row, mapping) ==
    LET column == IF K_name \in DOMAIN mapping /\ Truthy(mapping[K_name])
                  THEN mapping[K_name] ELSE K_name
    IN  IF column \in DOMAIN row /\ Truthy(row[column])
        THEN row[column] ELSE S_Unknown

\* recipient_email: sendEmails ? row[emailColumn] : null
RecipientEmail(row, send, column) ==
    IF send /\ column \in DOMAIN row THEN row[column] ELSE SqlNull

\* a batch row whose total_count is left at the column default
BatchRow_defaultTotal(n, closure) ==
    [id |-> n, template_id |-> closure.selectedTemplateId,
     status |-> "processing", total_count |-> 0,
     generated_count |-> 0, sent_count |-> 0, failed_count |-> 0,
     csv_data |-> closure.csvData]

\* the row that the insert into batch_jobs creates (defaults of part_001)
BatchRow(n, closure) ==
    [id |-> n, template_id |-> closure.selectedTemplateId,
     status |-> "processing", total_count |-> Len(closure.csvData),
     generated_count |-> 0, sent_count |-> 0, failed_count |-> 0,
     csv_data |-> closure.csvData]

\* the row that the insert into certificates creates for csvData[i]
CertificateRow(closure) ==
    LET row == closure.csvData[closure.i + 1]
    IN  [batch_id |-> closure.batchId,
         template_id |-> closure.selectedTemplateId,
         recipient_name |-> RecipientName(row, closure.fieldMapping),
         recipient_email |-> RecipientEmail(row, closure.sendEmails, closure.emailColumn),
         recipient_data |-> row,
         email_status |-> "pending"]

\* update({status: 'completed', generated_count}).eq('id', batch.id)
DbCompleteBatch(batches, batchId, count) ==
    [j \in DOMAIN batches |->
        IF batches[j].id = batchId
        THEN [batches[j] EXCEPT !.status = "completed", !.generated_count = count]
        ELSE batches[j]]

\* the certificates rows of a batch
CertificatesOf(certs, batchId) == SelectSeq(certs, LAMBDA c : c.batch_id = batchId)

----------------------------------------------------------------------------
(* Generate wizard: events *)

\* the preview dialog is rendered (and, being modal, covers the wizard)
DialogOpen ==
    /\ step = 3
    /\ showPreview
    /\ selectedTemplate(templates, selectedTemplateId) # Undefined

\* a CertificatePreview that is constructed: useState(0), useState(800)
PreviewUnmounted ==
    /\ previewIndex' = 0
    /\ containerWidth' = 800

\* the ['templates', user.id] query delivers its rows
TemplatesLoaded ==
    /\ UNCHANGED <<editorVars, dbEditorVars, authVars>>
    /\ templates = <<>>
    /\ templates' = QueryTemplates
    /\ UNCHANGED <<nEdits, step, selectedTemplateId, csvData, csvHeaders, fieldMapping,
                   sendEmails, emailColumn, isGenerating, showPreview,
                   generationProgress, parsing, genPc, genClosure, genToast,
                   nLoads, nRuns, dbWizardVars, previewVars>>

\* step 1: onValueChange={setSelectedTemplateId}
SelectTemplate ==
    /\ UNCHANGED <<editorVars, dbEditorVars, authVars>>
    /\ step = 1
    /\ \E i \in DOMAIN templates :
          /\ templates[i].id # selectedTemplateId
          /\ selectedTemplateId' = templates[i].id
    /\ UNCHANGED <<nEdits, step, csvData, csvHeaders, fieldMapping, sendEmails,
                   emailColumn, isGenerating, showPreview, generationProgress,
                   templates, parsing, genPc, genClosure, genToast, nLoads,
                   nRuns, dbWizardVars, previewVars>>

\* step 1: Continue, disabled={!selectedTemplateId}
ContinueToUpload ==
    /\ UNCHANGED <<editorVars, dbEditorVars, authVars>>
    /\ step = 1
    /\ selectedTemplateId # NoTemplate
    /\ step' = 2
    /\ UNCHANGED <<nEdits, selectedTemplateId, csvData, csvHeaders, fieldMapping,
                   sendEmails, emailColumn, isGenerating, showPreview,
                   generationProgress, templates, parsing, genPc, genClosure,
                   genToast, nLoads, nRuns, dbWizardVars, previewVars>>

\* step 2: Back
BackToSelect ==
    /\ UNCHANGED <<editorVars, dbEditorVars, authVars>>
    /\ step = 2
    /\ step' = 1
    /\ UNCHANGED <<nEdits, selectedTemplateId, csvData, csvHeaders, fieldMapping,
                   sendEmails, emailColumn, isGenerating, showPreview,
                   generationProgress, templates, parsing, genPc, genClosure,
                   genToast, nLoads, nRuns, dbWizardVars, previewVars>>

\* handleCsvUpload: Papa.parse(file, {complete, error}) is started; its
\* callbacks close over the templateFields of this render
CsvUploadStart ==
    /\ UNCHANGED <<editorVars, dbEditorVars, authVars>>
    /\ step = 2
    /\ nLoads < MaxLoads
    /\ \E file \in CsvFiles :
          parsing' = parsing \cup
              { [data |-> RowsOf(file),
                 headers |-> file.headers,
                 templateFields |-> templateFieldsOf(templates, selectedTemplateId)] }
    /\ nLoads' = nLoads + 1
    /\ UNCHANGED <<nEdits, step, selectedTemplateId, csvData, csvHeaders, fieldMapping,
                   sendEmails, emailColumn, isGenerating, showPreview,
                   generationProgress, templates, genPc, genClosure, genToast,
                   nRuns, dbWizardVars, previewVars>>

\* the complete callback of the parse p
CsvParseCompleteOf(p) ==
    /\ UNCHANGED <<editorVars, dbEditorVars, authVars>>
    /\ p \in parsing
    /\ parsing' = parsing \ {p}
    /\ csvData' = p.data
    /\ csvHeaders' = p.headers
    /\ fieldMapping' = AutoMap(p.templateFields, p.headers)
    /\ emailColumn' = DetectEmailColumn(p.headers, emailColumn)
    /\ step' = 3
    /\ genToast' = "CSV loaded"
    /\ IF step = 3
       THEN UNCHANGED previewVars
       ELSE /\ previewIndex' = 0
            /\ IF showPreview /\ selectedTemplate(templates, selectedTemplateId) # Undefined
               THEN \E w \in OffsetWidths : containerWidth' = updateWidth(w)
               ELSE containerWidth' = 800
    /\ UNCHANGED <<nEdits, selectedTemplateId, sendEmails, isGenerating, showPreview,
                   generationProgress, templates, genPc, genClosure, nLoads,
                   nRuns, dbWizardVars>>

CsvParseComplete == \E p \in parsing : CsvParseCompleteOf(p)

\* the error callback of a parse
CsvParseError ==
    /\ UNCHANGED <<editorVars, dbEditorVars, authVars>>
    /\ \E p \in parsing : parsing' = parsing \ {p}
    /\ genToast' = "Error"
    /\ UNCHANGED <<nEdits, step, selectedTemplateId, csvData, csvHeaders, fieldMapping,
                   sendEmails, emailColumn, isGenerating, showPreview,
                   generationProgress, templates, genPc, genClosure, nLoads,
                   nRuns, dbWizardVars, previewVars>>

\* step 3: a column is chosen for a field; the items of the Select are the
\* headers, and an item needs a non-empty value
SetFieldMapping ==
    /\ UNCHANGED <<editorVars, dbEditorVars, authVars>>
    /\ step = 3
    /\ nEdits < MaxEdits
    /\ ~DialogOpen
    /\ \E i \in DOMAIN templateFieldsOf(templates, selectedTemplateId),
          j \in DOMAIN csvHeaders :
          LET field == templateFieldsOf(templates, selectedTemplateId)[i]
              v == csvHeaders[j]
          IN  /\ Truthy(v)
              /\ fieldMapping' = Spread(fieldMapping, field.field_key :> v)
              /\ fieldMapping' # fieldMapping
    /\ nEdits' = nEdits + 1
    /\ UNCHANGED <<step, selectedTemplateId, csvData, csvHeaders, sendEmails,
                   emailColumn, isGenerating, showPreview, generationProgress,
                   templates, parsing, genPc, genClosure, genToast, nLoads,
                   nRuns, dbWizardVars, previewVars>>

\* step 3: onCheckedChange={(c) => setSendEmails(c === true)}
SetSendEmails ==
    /\ UNCHANGED <<editorVars, dbEditorVars, authVars>>
    /\ step = 3
    /\ nEdits < MaxEdits
    /\ ~DialogOpen
    /\ sendEmails' = ~sendEmails
    /\ nEdits' = nEdits + 1
    /\ UNCHANGED <<step, selectedTemplateId, csvData, csvHeaders, fieldMapping,
                   emailColumn, isGenerating, showPreview, generationProgress,
                   templates, parsing, genPc, genClosure, genToast, nLoads,
                   nRuns, dbWizardVars, previewVars>>

\* step 3: onValueChange={setEmailColumn}, rendered when sendEmails
SetEmailColumn ==
    /\ UNCHANGED <<editorVars, dbEditorVars, authVars>>
    /\ step = 3
    /\ nEdits < MaxEdits
    /\ ~DialogOpen
    /\ sendEmails
    /\ \E j \in DOMAIN csvHeaders :
          /\ Truthy(csvHeaders[j])
          /\ csvHeaders[j] # emailColumn
          /\ emailColumn' = csvHeaders[j]
    /\ nEdits' = nEdits + 1
    /\ UNCHANGED <<step, selectedTemplateId, csvData, csvHeaders, fieldMapping,
                   sendEmails, isGenerating, showPreview, generationProgress,
                   templates, parsing, genPc, genClosure, genToast, nLoads,
                   nRuns, dbWizardVars, previewVars>>

\* step 3: Back; the step-3 subtree, CertificatePreview included, unmounts
BackToUpload ==
    /\ UNCHANGED <<editorVars, dbEditorVars, authVars>>
    /\ step = 3
    /\ ~DialogOpen
    /\ step' = 2
    /\ PreviewUnmounted
    /\ UNCHANGED <<nEdits, selectedTemplateId, csvData, csvHeaders, fieldMapping,
                   sendEmails, emailColumn, isGenerating, showPreview,
                   generationProgress, templates, parsing, genPc, genClosure,
                   genToast, nLoads, nRuns, dbWizardVars>>

\* step 3: Preview, disabled={!selectedTemplate || csvData.length === 0};
\* the effect on [open] measures the container
OpenPreview ==
    /\ UNCHANGED <<editorVars, dbEditorVars, authVars>>
    /\ step = 3
    /\ ~showPreview
    /\ selectedTemplate(templates, selectedTemplateId) # Undefined
    /\ Len(csvData) # 0
    /\ showPreview' = TRUE
    /\ \E w \in OffsetWidths : containerWidth' = updateWidth(w)
    /\ UNCHANGED <<nEdits, step, selectedTemplateId, csvData, csvHeaders, fieldMapping,
                   sendEmails, emailColumn, isGenerating, generationProgress,
                   templates, parsing, genPc, genClosure, genToast, nLoads,
                   nRuns, dbWizardVars, previewIndex>>

\* onOpenChange(false)
ClosePreview ==
    /\ UNCHANGED <<editorVars, dbEditorVars, authVars>>
    /\ DialogOpen
    /\ showPreview' = FALSE
    /\ UNCHANGED <<nEdits, step, selectedTemplateId, csvData, csvHeaders, fieldMapping,
                   sendEmails, emailColumn, isGenerating, generationProgress,
                   templates, parsing, genPc, genClosure, genToast, nLoads,
                   nRuns, dbWizardVars, previewVars>>

\* window 'resize' while the dialog is rendered: updateWidth
WindowResize ==
    /\ UNCHANGED <<editorVars, dbEditorVars, authVars>>
    /\ DialogOpen
    /\ \E w \in OffsetWidths :
          /\ updateWidth(w) # containerWidth
          /\ containerWidth' = updateWidth(w)
    /\ UNCHANGED <<wizardVars, dbWizardVars, previewIndex>>

\* the previous button, disabled={previewIndex === 0}
PreviewPrev ==
    /\ UNCHANGED <<editorVars, dbEditorVars, authVars>>
    /\ DialogOpen
    /\ previewIndex # 0
    /\ previewIndex' = handlePrev(previewIndex)
    /\ UNCHANGED <<wizardVars, dbWizardVars, containerWidth>>

\* the next button, disabled={previewIndex >= csvData.length - 1}
PreviewNext ==
    /\ UNCHANGED <<editorVars, dbEditorVars, authVars>>
    /\ DialogOpen
    /\ ~(previewIndex >= Len(csvData) - 1)
    /\ previewIndex' = handleNext(previewIndex, csvData)
    /\ UNCHANGED <<wizardVars, dbWizardVars, containerWidth>>

\* the record picker: onValueChange={(v) => setPreviewIndex(Number(v))}
PreviewPickAt(i) ==
    /\ UNCHANGED <<editorVars, dbEditorVars, authVars>>
    /\ DialogOpen
    /\ i \in PickerValues(csvData)
    /\ i # previewIndex
    /\ previewIndex' = i
    /\ UNCHANGED <<wizardVars, dbWizardVars, containerWidth>>

PreviewPick == \E i \in 0..MaxRows : PreviewPickAt(i)

\* a handleGenerate that does not look at the number of rows
HandleGenerate_unguarded ==
    /\ UNCHANGED <<editorVars, dbEditorVars, authVars>>
    /\ step = 3
    /\ ~DialogOpen
    /\ ~isGenerating
    /\ nRuns < MaxRuns
    /\ nRuns' = nRuns + 1
    /\ IF selectedTemplate(templates, selectedTemplateId) = Undefined
       THEN UNCHANGED <<isGenerating, generationProgress, genPc, genClosure>>
       ELSE /\ isGenerating' = TRUE
            /\ generationProgress' = 0
            /\ genPc' = "batch"
            /\ genClosure' =
                  [csvData |-> csvData, fieldMapping |-> fieldMapping,
                   sendEmails |-> sendEmails, emailColumn |-> emailColumn,
                   selectedTemplateId |-> selectedTemplateId,
                   i |-> 0, batchId |-> 0]
    /\ UNCHANGED <<nEdits, step, selectedTemplateId, csvData, csvHeaders, fieldMapping,
                   sendEmails, emailColumn, showPreview, templates, parsing,
                   genToast, nLoads, dbWizardVars, previewVars>>

\* handleGenerate up to its first await: the guard, setIsGenerating(true),
\* setGenerationProgress(0) and the request that inserts the batch
HandleGenerate ==
    /\ UNCHANGED <<editorVars, dbEditorVars, authVars>>
    /\ step = 3
    /\ ~DialogOpen
    /\ ~isGenerating
    /\ nRuns < MaxRuns
    /\ nRuns' = nRuns + 1
    /\ IF selectedTemplate(templates, selectedTemplateId) = Undefined \/ Len(csvData) = 0
       THEN UNCHANGED <<isGenerating, generationProgress, genPc, genClosure>>
       ELSE /\ isGenerating' = TRUE
            /\ generationProgress' = 0
            /\ genPc' = "batch"
            /\ genClosure' =
                  [csvData |-> csvData, fieldMapping |-> fieldMapping,
                   sendEmails |-> sendEmails, emailColumn |-> emailColumn,
                   selectedTemplateId |-> selectedTemplateId,
                   i |-> 0, batchId |-> 0]
    /\ UNCHANGED <<nEdits, step, selectedTemplateId, csvData, csvHeaders, fieldMapping,
                   sendEmails, emailColumn, showPreview, templates, parsing,
                   genToast, nLoads, dbWizardVars, previewVars>>

\* a run that goes on to the certificates whatever the batch insert returned
GenBatchDoneWith_unchecked(outcome) ==
    /\ UNCHANGED <<editorVars, dbEditorVars, authVars>>
    /\ genPc = "batch"
    /\ dbBatches' = IF outcome = "ok"
                    THEN Append(dbBatches, BatchRow(Len(dbBatches) + 1, genClosure))
                    ELSE dbBatches
    /\ genClosure' = [genClosure EXCEPT !.batchId = Len(dbBatches) + 1]
    /\ genPc' = "certificate"
    /\ UNCHANGED <<isGenerating, genToast>>
    /\ UNCHANGED <<nEdits, step, selectedTemplateId, csvData, csvHeaders, fieldMapping,
                   sendEmails, emailColumn, showPreview, generationProgress,
                   templates, parsing, nLoads, nRuns, dbCertificates,
                   previewVars>>

\* the insert into batch_jobs returns: if (batchError) throw batchError, else
\* the loop issues the insert of the first certificate
GenBatchDoneWith(outcome) ==
    /\ UNCHANGED <<editorVars, dbEditorVars, authVars>>
    /\ genPc = "batch"
    /\ IF outcome = "ok"
          THEN /\ dbBatches' = Append(dbBatches, BatchRow(Len(dbBatches) + 1, genClosure))
               /\ genClosure' = [genClosure EXCEPT !.batchId = Len(dbBatches) + 1]
               /\ genPc' = "certificate"
               /\ UNCHANGED <<isGenerating, genToast>>
          ELSE /\ genToast' = "Error"
               /\ isGenerating' = FALSE
               /\ genPc' = "idle"
               /\ genClosure' = Undefined
               /\ UNCHANGED dbBatches
    /\ UNCHANGED <<nEdits, step, selectedTemplateId, csvData, csvHeaders, fieldMapping,
                   sendEmails, emailColumn, showPreview, generationProgress,
                   templates, parsing, nLoads, nRuns, dbCertificates,
                   previewVars>>

GenBatchDone == \E outcome \in WriteOutcomes : GenBatchDoneWith(outcome)

\* the insert of certificate i returns (its result is not read), the progress
\* is set, and the loop issues the next insert or the update of the batch
GenCertificateDoneWith(outcome) ==
    /\ UNCHANGED <<editorVars, dbEditorVars, authVars>>
    /\ genPc = "certificate"
    /\ dbCertificates' =
          IF outcome = "ok"
          THEN Append(dbCertificates, CertificateRow(genClosure))
          ELSE dbCertificates
    /\ generationProgress' =
          MathRound((genClosure.i + 1) * 100, Len(genClosure.csvData))
    /\ genClosure' = [genClosure EXCEPT !.i = genClosure.i + 1]
    /\ genPc' = IF genClosure.i + 1 < Len(genClosure.csvData)
                THEN "certificate" ELSE "update"
    /\ UNCHANGED <<nEdits, step, selectedTemplateId, csvData, csvHeaders, fieldMapping,
                   sendEmails, emailColumn, isGenerating, showPreview,
                   templates, parsing, genToast, nLoads, nRuns, dbBatches,
                   previewVars>>

GenCertificateDone == \E outcome \in WriteOutcomes : GenCertificateDoneWith(outcome)

\* the update of the batch returns (its result is not read): toast,
\* setStep(4), and the finally block
GenUpdateDoneWith(outcome) ==
    /\ UNCHANGED <<editorVars, dbEditorVars, authVars>>
    /\ genPc = "update"
    /\ dbBatches' =
          IF outcome = "ok"
          THEN DbCompleteBatch(dbBatches, genClosure.batchId, Len(genClosure.csvData))
          ELSE dbBatches
    /\ genToast' = "Generation Complete"
    /\ step' = 4
    /\ isGenerating' = FALSE
    /\ genPc' = "idle"
    /\ genClosure' = Undefined
    /\ PreviewUnmounted
    /\ UNCHANGED <<nEdits, selectedTemplateId, csvData, csvHeaders, fieldMapping,
                   sendEmails, emailColumn, showPreview, generationProgress,
                   templates, parsing, nLoads, nRuns, dbCertificates>>

GenUpdateDone == \E outcome \in WriteOutcomes : GenUpdateDoneWith(outcome)

\* step 4: Generate More
GenerateMore ==
    /\ UNCHANGED <<editorVars, dbEditorVars, authVars>>
    /\ step = 4
    /\ step' = 1
    /\ csvData' = <<>>
    /\ csvHeaders' = <<>>
    /\ fieldMapping' = EmptyObject
    /\ selectedTemplateId' = NoTemplate
    /\ UNCHANGED <<nEdits, sendEmails, emailColumn, isGenerating, showPreview,
                   generationProgress, templates, parsing, genPc, genClosure,
                   genToast, nLoads, nRuns, dbWizardVars, previewVars>>

----------------------------------------------------------------------------
(* Auth page (src/pages/Auth.tsx) *)

\* form submissions per visit of the Auth page
MaxSubmits == 2

AsciiLower ==
    {"a", "b", "c", "d", "e", "f", "g", "h", "i", "j", "k", "l", "m", "n", "o",
     "p", "q", "r", "s", "t", "u", "v", "w", "x", "y", "z"}

AtPositions(str) == {i \in 1..Len(str) : str[i] = "@"}

DotPositions(str) == {i \in 1..Len(str) : str[i] = "."}

\* emailSchema.parse(str) does not throw: z.string().email() (15). One "@";
\* a local part that neither starts nor ends with a dot; no two dots in a row;
\* a domain of dot-separated labels whose last one is two letters or more.
emailSchema_ok(str) ==
    /\ Cardinality(AtPositions(str)) = 1
    /\ LET at == CHOOSE i \in AtPositions(str) : TRUE
           local == SubSeq(str, 1, at - 1)
           domain == SubSeq(str, at + 1, Len(str))
       IN  /\ Len(local) > 0
           /\ local[1] # "." /\ local[Len(local)] # "."
           /\ ~includes(str, <<".", ".">>)
           /\ Len(domain) > 0 /\ domain[1] # "."
           /\ DotPositions(domain) # {}
           /\ LET last == CHOOSE i \in DotPositions(domain) :
                              \A j \in DotPositions(domain) : j <= i
              IN  /\ Len(domain) - last >= 2
                  /\ \A i \in (last + 1)..Len(domain) :
                        LowerChar(domain[i]) \in AsciiLower

\* a password schema that lets five characters pass
passwordSchema_ok_min5(str) == Len(str) >= 5

\* passwordSchema.parse(str) does not throw: z.string().min(6) (16)
passwordSchema_ok(str) == Len(str) >= 6

\* nameSchema.parse(str) does not throw: z.string().min(2).optional() (17)
nameSchema_ok(str) == Len(str) >= 2

\* what the user types into the address, password and name inputs
TypedEmails == { <<>>, <<"a", "@", "b">>, <<"a", "@", "b", ".", "c", "o">> }
TypedPasswords == { <<>>, <<"1", "2", "3", "4", "5">>,
                    <<"1", "2", "3", "4", "5", "6">> }
TypedNames == { <<>>, <<"A">>, <<"A", "l">> }

SignedIn == [id |-> "user"]

NoToast == [title |-> "none", description |-> "none"]

\* toast({ title: 'Validation Error', description: err.errors[0].message })
ValidationToast(message) == [title |-> "Validation Error", description |-> message]

\* the useState initial values of the page (24-31)
AuthFresh ==
    /\ isLoading = FALSE
    /\ email = <<>>
    /\ password = <<>>
    /\ fullName = <<>>
    /\ magicLinkEmail = <<>>
    /\ authPc = "idle"

\* the component state is discarded when the page is left
AuthUnmounted ==
    /\ isLoading' = FALSE
    /\ email' = <<>>
    /\ password' = <<>>
    /\ fullName' = <<>>
    /\ magicLinkEmail' = <<>>
    /\ authPc' = "idle"

\* the variables of the other pages that the Auth page leaves alone
outsideAuth == <<isEditMode, templateName, templateDescription, imageUrl,
                 imageDimensions, fields, selectedFieldId, saving,
                 existingTemplate, clock, savePc, saveClosure, saveResult,
                 editorToast, nOps, editorWrites, dbEditorVars, generateVars>>

\* onChange of the address inputs of the login and signup forms (213, 266)
SetEmail ==
    /\ route = "auth"
    /\ \E v \in TypedEmails : v # email /\ email' = v
    /\ UNCHANGED <<outsideAuth, route, user, isLoading, password, fullName,
                   magicLinkEmail, authPc, authToast, authCalls, nSubmits>>

\* onChange of the password inputs (228, 281)
SetPassword ==
    /\ route = "auth"
    /\ \E v \in TypedPasswords : v # password /\ password' = v
    /\ UNCHANGED <<outsideAuth, route, user, isLoading, email, fullName,
                   magicLinkEmail, authPc, authToast, authCalls, nSubmits>>

\* onChange of the name input (252)
SetFullName ==
    /\ route = "auth"
    /\ \E v \in TypedNames : v # fullName /\ fullName' = v
    /\ UNCHANGED <<outsideAuth, route, user, isLoading, email, password,
                   magicLinkEmail, authPc, authToast, authCalls, nSubmits>>

\* onChange of the magic-link address input (305)
SetMagicLinkEmail ==
    /\ route = "auth"
    /\ \E v \in TypedEmails : v # magicLinkEmail /\ magicLinkEmail' = v
    /\ UNCHANGED <<outsideAuth, route, user, isLoading, email, password,
                   fullName, authPc, authToast, authCalls, nSubmits>>

\* a handler after its validation: either the Validation Error toast and
\* return, or setIsLoading(true) and the remote call
SubmitOrReject(valid, message, call) ==
    /\ route = "auth" /\ ~isLoading /\ nSubmits < MaxSubmits
    /\ nSubmits' = nSubmits + 1
    /\ IF valid
       THEN /\ isLoading' = TRUE
            /\ authCalls' = Append(authCalls, call)
            /\ authPc' = call
            /\ UNCHANGED authToast
       ELSE /\ authToast' = ValidationToast(message)
            /\ UNCHANGED <<isLoading, authCalls, authPc>>
    /\ UNCHANGED <<outsideAuth, route, user, email, password, fullName,
                   magicLinkEmail>>

\* handleSignIn up to its await (39-54)
HandleSignIn ==
    SubmitOrReject(emailSchema_ok(email) /\ passwordSchema_ok(password),
                   IF ~emailSchema_ok(email)
                   THEN "Please enter a valid email address"
                   ELSE "Password must be at least 6 characters",
                   "signIn")

\* handleSignUp up to its await (67-83)
HandleSignUp ==
    SubmitOrReject(/\ emailSchema_ok(email)
                   /\ passwordSchema_ok(password)
                   /\ (Truthy(fullName) => nameSchema_ok(fullName)),
                   IF ~emailSchema_ok(email)
                   THEN "Please enter a valid email address"
                   ELSE IF ~passwordSchema_ok(password)
                   THEN "Password must be at least 6 characters"
                   ELSE "Name must be at least 2 characters",
                   "signUp")

\* handleMagicLink up to its await (98-112)
HandleMagicLink ==
    SubmitOrReject(emailSchema_ok(magicLinkEmail),
                   "Please enter a valid email address",
                   "signInWithMagicLink")

\* signIn returns (53-65); with a user the effect navigates to the dashboard
\* (33-37)
SignInDoneWith(outcome) ==
    /\ route = "auth" /\ authPc = "signIn"
    /\ IF outcome = "ok"
       THEN /\ user' = SignedIn
            /\ route' = "dashboard"
            /\ AuthUnmounted
            /\ UNCHANGED authToast
       ELSE /\ isLoading' = FALSE
            /\ authPc' = "idle"
            /\ authToast' = [title |-> "Sign In Failed", description |-> "error.message"]
            /\ UNCHANGED <<user, route, email, password, fullName, magicLinkEmail>>
    /\ UNCHANGED <<outsideAuth, authCalls, nSubmits>>

SignInDone == \E outcome \in Outcomes : SignInDoneWith(outcome)

\* signUp returns (82-96)
SignUpDoneWith(outcome) ==
    /\ route = "auth" /\ authPc = "signUp"
    /\ isLoading' = FALSE
    /\ authPc' = "idle"
    /\ authToast' = IF outcome = "ok"
                    THEN [title |-> "Welcome!",
                          description |-> "Your account has been created successfully."]
                    ELSE [title |-> "Sign Up Failed", description |-> "error.message"]
    /\ UNCHANGED <<outsideAuth, route, user, email, password, fullName,
                   magicLinkEmail, authCalls, nSubmits>>

SignUpDone == \E outcome \in Outcomes : SignUpDoneWith(outcome)

\* signInWithMagicLink returns (111-122)
MagicLinkDoneWith(outcome) ==
    /\ route = "auth" /\ authPc = "signInWithMagicLink"
    /\ isLoading' = FALSE
    /\ authPc' = "idle"
    /\ authToast' = IF outcome = "ok"
                    THEN [title |-> "Check your email",
                          description |-> "We sent you a magic link to sign in."]
                    ELSE [title |-> "Error", description |-> "error.message"]
    /\ UNCHANGED <<outsideAuth, route, user, email, password, fullName,
                   magicLinkEmail, authCalls, nSubmits>>

MagicLinkDone == \E outcome \in Outcomes : MagicLinkDoneWith(outcome)

\* the dashboard's link to /templates/new (part_000:963)
OpenEditor ==
    /\ route = "dashboard"
    /\ route' = "editor"
    /\ UNCHANGED <<outsideAuth, authVars>>

\* the signed-in session in which the other pages are used
AuthSignedIn ==
    /\ AuthFresh
    /\ user = SignedIn
    /\ authToast = NoToast
    /\ authCalls = <<>>
    /\ nSubmits = 0

----------------------------------------------------------------------------
(* The sessions *)

\* the state of a Generate page that has just been constructed;
\* selectedTemplateId is searchParams.get('template') || ''
GenerateMounted ==
    /\ step = 1
    /\ selectedTemplateId \in {NoTemplate, StoredTemplates[1].id}
    /\ csvData = <<>>
    /\ csvHeaders = <<>>
    /\ fieldMapping = EmptyObject
    /\ sendEmails = TRUE
    /\ emailColumn = S_email
    /\ isGenerating = FALSE
    /\ showPreview = FALSE
    /\ generationProgress = 0
    /\ templates = <<>>
    /\ parsing = {}
    /\ genPc = "idle"
    /\ genClosure = Undefined
    /\ genToast = "none"
    /\ nLoads = 0
    /\ nRuns = 0
    /\ nEdits = 0
    /\ dbBatches = <<>>
    /\ dbCertificates = <<>>
    /\ previewIndex = 0
    /\ containerWidth = 800

\* an editor session: the wizard is not in use
EditorInit ==
    /\ AuthSignedIn
    /\ EditorMounted
    /\ EditorDatabase
    /\ GenerateMounted
    /\ selectedTemplateId = NoTemplate

SpecEditor == EditorInit /\ [][EditorNext]_vars

\* the editor with images of many sizes, for the scale computation
EditorScaleNext ==
    \/ FetchTemplate
    \/ \E img \in ImageGrid : ImageUploadOf(img, "onload")

SpecEditorScale == EditorInit /\ [][EditorScaleNext]_vars

\* the editor with images of many sizes and labels that are selected, typed
\* to a position and let go where they are drawn
RoundTripNext ==
    \/ FetchTemplate
    \/ \E img \in ImageGrid : ImageUploadOf(img, "onload")
    \/ SelectField
    \/ \E u \in TypedPosition : PanelEditWith(u)
    \/ DragBack

SpecRoundTrip == EditorInit /\ [][RoundTripNext]_vars

\* a new template once the user has uploaded a 1200 x 600 image, typed the
\* name and added the preset field: the form from which saves are tried
NewTemplateFilled ==
    LET dim == [width |-> 1200, height |-> 600]
        preset == CHOOSE p \in FIELD_PRESETS : TRUE
    IN  /\ AuthSignedIn
        /\ route = "editor"
        /\ isEditMode = FALSE
        /\ templateName = "Award"
        /\ templateDescription = ""
        /\ imageUrl = "uploaded.png"
        /\ imageDimensions = dim
        /\ fields = <<NewField(preset, 0, dim)>>
        /\ selectedFieldId = [temp |-> 0]
        /\ saving = FALSE
        /\ existingTemplate = Undefined
        /\ clock = 0
        /\ savePc = "idle"
        /\ saveClosure = Undefined
        /\ saveResult = "none"
        /\ editorToast = "none"
        /\ nOps = 0
        /\ editorWrites = <<>>
        /\ EditorDatabase
        /\ GenerateMounted
        /\ selectedTemplateId = NoTemplate

\* saves of the new template, with edits of the form between them
NewTemplateNext ==
    \/ SetTemplateName
    \/ AddField
    \/ SelectField
    \/ StageMouseDown
    \/ PanelEdit
    \/ DragEnd
    \/ RemoveField
    \/ SaveClick
    \/ SaveCreateDone
    \/ SaveInsertDone

SpecNewTemplate == NewTemplateFilled /\ [][NewTemplateNext]_vars

\* a wizard session: the editor is not in use, and the user owns the stored
\* templates
GenerateInit ==
    /\ AuthSignedIn
    /\ EditorMounted
    /\ ~isEditMode
    /\ dbTemplates = StoredTemplates
    /\ dbFields = StoredFields
    /\ dbNextId = 30
    /\ GenerateMounted

GenerateNext ==
    \/ TemplatesLoaded
    \/ SelectTemplate
    \/ ContinueToUpload
    \/ BackToSelect
    \/ CsvUploadStart
    \/ CsvParseComplete
    \/ CsvParseError
    \/ SetFieldMapping
    \/ SetSendEmails
    \/ SetEmailColumn
    \/ BackToUpload
    \/ OpenPreview
    \/ ClosePreview
    \/ WindowResize
    \/ PreviewPrev
    \/ PreviewNext
    \/ PreviewPick
    \/ HandleGenerate
    \/ GenBatchDone
    \/ GenCertificateDone
    \/ GenUpdateDone
    \/ GenerateMore

SpecGenerate == GenerateInit /\ [][GenerateNext]_vars

\* a wizard session in which no generation is run: loading, mapping and the
\* preview
PreviewSessionNext ==
    \/ TemplatesLoaded
    \/ SelectTemplate
    \/ ContinueToUpload
    \/ BackToSelect
    \/ CsvUploadStart
    \/ CsvParseComplete
    \/ CsvParseError
    \/ SetFieldMapping
    \/ SetSendEmails
    \/ SetEmailColumn
    \/ BackToUpload
    \/ OpenPreview
    \/ ClosePreview
    \/ WindowResize
    \/ PreviewPrev
    \/ PreviewNext
    \/ PreviewPick

SpecPreview == GenerateInit /\ [][PreviewSessionNext]_vars

\* a wizard session that goes forward through the steps: loading and
\* generation runs, without the step-3 choices and the preview
RunSessionNext ==
    \/ TemplatesLoaded
    \/ SelectTemplate
    \/ ContinueToUpload
    \/ CsvUploadStart
    \/ CsvParseComplete
    \/ HandleGenerate
    \/ GenBatchDone
    \/ GenCertificateDone
    \/ GenUpdateDone
    \/ GenerateMore

SpecRun == GenerateInit /\ [][RunSessionNext]_vars

\* a visit that starts signed out on the Auth page and goes on, once signed
\* in, to a new template in the editor, where the mutation is applied in
\* every state of the form
ValidationInit ==
    /\ route = "auth"
    /\ user = Null
    /\ AuthFresh
    /\ authToast = NoToast
    /\ authCalls = <<>>
    /\ nSubmits = 0
    /\ EditorFresh
    /\ ~isEditMode
    /\ EditorDatabase
    /\ GenerateMounted
    /\ selectedTemplateId = NoTemplate

ValidationNext ==
    \/ SetEmail
    \/ SetPassword
    \/ SetFullName
    \/ SetMagicLinkEmail
    \/ HandleSignIn
    \/ HandleSignUp
    \/ HandleMagicLink
    \/ SignInDone
    \/ SignUpDone
    \/ MagicLinkDone
    \/ OpenEditor
    \/ SetTemplateName
    \/ ImageUpload
    \/ SaveMutate
    \/ SaveCreateDone

SpecValidation == ValidationInit /\ [][ValidationNext]_vars

----------------------------------------------------------------------------
(* Properties of the template editor *)

\* the values of a field that a save writes and a load reads back
FieldValues(f) ==
    <<f.field_key, f.label, f.x, f.y, f.font_size, f.font_family,
      f.font_color, f.text_align>>

ValuesOf(fs) == [i \in 1..Len(fs) |-> FieldValues(fs[i])]

\* the columns of a persisted template_fields row
FieldColumns ==
    {"id", "template_id", "field_key", "label", "x", "y", "font_size",
     "font_family", "font_color", "text_align", "max_width"}

DropPosition(drop) == [x |-> Num(drop.x), y |-> Num(drop.y)]

\* C2: after a save of an existing template that reports success, the
\* persisted field set of the template equals the editor's in-memory field
\* set, field by field (key, label, x, y, font, alignment), and no field
\* persisted before the save remains.
C2_ReplaceAllSave ==
    (isEditMode /\ saveResult = "success")
        => ValuesOf(FieldsOf(dbFields, EditId)) = ValuesOf(fields)

\* C3: x and y are always coordinates of the image's native pixel space.
\* A drag that drops the label at an on-screen position leaves the field where
\* rendering it through the Stage scale puts it back on that position; a typed
\* X or Y is stored as typed; a load copies the persisted x, y; a save writes
\* the in-memory x, y; and a persisted row has no column for the scale.
C3_NativePixelSpace ==
    [][ /\ \A i \in 1..Len(fields), drop \in DropPoints :
            (nOps' # nOps /\ DragEndAt(i, drop)) =>
                \A j \in 1..Len(fields') :
                    fields'[j].id = fields[i].id =>
                        TextAbsolute(fields'[j], EditorScale(imageDimensions'))
                            = DropPosition(drop)
        /\ \A u \in TypedPosition :
            (nOps' # nOps /\ PanelEditWith(u)) =>
                \A j \in 1..Len(fields') :
                    fields'[j].id = selectedFieldId =>
                        \A k \in DOMAIN u : fields'[j][k] = u[k]
        /\ (existingTemplate' # existingTemplate /\ FetchTemplate
                          /\ existingTemplate' # Undefined) =>
                LET rows == FieldsOf(dbFields, EditId) IN
                /\ Len(fields') = Len(rows)
                /\ \A j \in 1..Len(rows) :
                    fields'[j].x = rows[j].x /\ fields'[j].y = rows[j].y
        /\ (saveResult' = "success" /\ SaveInsertDone) =>
                LET new == SubSeq(dbFields', Len(dbFields) + 1, Len(dbFields')) IN
                /\ Len(new) = Len(saveClosure.fields)
                /\ \A j \in 1..Len(new) :
                    /\ new[j].x = saveClosure.fields[j].x
                    /\ new[j].y = saveClosure.fields[j].y
                    /\ DOMAIN new[j] = FieldColumns
      ]_vars

\* a label dragged on a canvas whose scale is not 1 sits where it was dropped
C3_Witness ==
    /\ CanvasShown
    /\ EditorScale(imageDimensions) # Num(1)
    /\ \E i \in 1..Len(fields), drop \in DropPoints :
        /\ TextAbsolute(fields[i], EditorScale(imageDimensions)) = DropPosition(drop)
        /\ fields[i].x # Num(drop.x)

\* C5: the editor scale is min(800/W, 500/H, 1): the canvas is never larger
\* than 800 by 500 and a smaller image is never upscaled.
C5_EditorScale ==
    LET W == imageDimensions.width
        H == imageDimensions.height
        s == EditorScale(imageDimensions)
        stage == StageSize(imageDimensions)
    IN  /\ RLeq(s, Rat(800, W)) /\ RLeq(s, Rat(500, H)) /\ RLeq(s, Num(1))
        /\ s \in {Rat(800, W), Rat(500, H), Num(1)}
        /\ RLeq(stage.width, Num(800)) /\ RLeq(stage.height, Num(500))

\* an uploaded image narrower than 800 whose height decides the scale
C5_Witness ==
    /\ imageUrl = "uploaded.png"
    /\ imageDimensions.width < 800 /\ imageDimensions.height > 500
    /\ EditorScale(imageDimensions) = Rat(500, imageDimensions.height)
    /\ StageSize(imageDimensions).height = Num(500)

\* C9: selecting a field makes that field the one the property panel shows;
\* a mouse-down on empty canvas sets the selection to none and hides the
\* panel; neither changes the working set.
C9_SelectAndClear ==
    [][ /\ \A i \in 1..Len(fields), via \in {"label", "list"} :
            SelectFieldAt(i, via) =>
                /\ selectedField(fields', selectedFieldId') = fields[i]
                /\ fields' = fields
        /\ StageMouseDown =>
                /\ selectedFieldId' = Null
                /\ ~PanelVisible'
                /\ fields' = fields
      ]_vars

\* the working set without its i-th field
WithoutIndex(fs, i) ==
    [j \in 1..(Len(fs) - 1) |-> IF j < i THEN fs[j] ELSE fs[j + 1]]

\* C10: removing a field deletes exactly that field and leaves every other
\* field unchanged; the selection becomes none if the removed field was the
\* active one and is unchanged otherwise; no remote write is issued.
C10_RemoveExactlyOne ==
    [][ \A i \in 1..Len(fields) :
            RemoveFieldAt(i) =>
                /\ fields' = WithoutIndex(fields, i)
                /\ selectedFieldId' = IF selectedFieldId = fields[i].id
                                      THEN Null ELSE selectedFieldId
                /\ editorWrites' = editorWrites
                /\ dbFields' = dbFields /\ dbTemplates' = dbTemplates
      ]_vars

----------------------------------------------------------------------------
(* Properties of the Generate wizard and of the preview *)

\* C1: whenever a batch row has status 'completed', exactly N certificate
\* rows exist for that batch, N being the number of rows of the uploaded
\* row-set, and the batch's generated_count and total_count both equal N,
\* whatever the outcomes of the remote writes of the run.
C1_CompletedBatchIsWhole ==
    \A j \in DOMAIN dbBatches :
        dbBatches[j].status = "completed"
        => LET N == Len(dbBatches[j].csv_data)
           IN  /\ N >= 1
               /\ Len(CertificatesOf(dbCertificates, dbBatches[j].id)) = N
               /\ dbBatches[j].generated_count = N
               /\ dbBatches[j].total_count = N

\* C4: while the preview is shown, for every available height AH the scale
\* equals min(AW/W, AH/H, 0.9), AW being the measured width, so the scaled
\* certificate exceeds neither AW nor AH, and every field is drawn at
\* (x*scale, y*scale).
C4_PreviewScale ==
    DialogOpen
    => \A AH \in AvailableHeights :
          LET template == PreviewTemplate(templates, selectedTemplateId)
              W == template.image_width
              H == template.image_height
              scale == PreviewScale(template, containerWidth)
              size == PreviewStageSize(template, containerWidth)
              tplFields == templateFieldsOf(templates, selectedTemplateId)
              row == currentRow(csvData, previewIndex)
          IN  /\ scale = RMin(RMin(Rat(containerWidth, W), Rat(AH, H)), Rat(9, 10))
              /\ RLeq(size.width, Num(containerWidth))
              /\ RLeq(size.height, Num(AH))
              /\ \A i \in DOMAIN tplFields :
                    /\ PreviewText(tplFields[i], scale, fieldMapping, row).x
                           = RMul(tplFields[i].x, scale)
                    /\ PreviewText(tplFields[i], scale, fieldMapping, row).y
                           = RMul(tplFields[i].y, scale)

\* C6: while the preview is shown, the text drawn for every field of key k is
\* row[mapping[k]] when mapping[k] is defined and the current row holds a
\* non-empty value under that column, and in every other case (k unmapped,
\* column missing from the row, empty value) it is k wrapped in double
\* braces; it is never the empty string.
C6_ValueResolution ==
    DialogOpen
    => LET tplFields == templateFieldsOf(templates, selectedTemplateId)
           row == currentRow(csvData, previewIndex)
           scale == PreviewScale(PreviewTemplate(templates, selectedTemplateId),
                                 containerWidth)
       IN  \A i \in DOMAIN tplFields :
              LET k == tplFields[i].field_key
                  text == PreviewText(tplFields[i], scale, fieldMapping, row).text
                  held == /\ k \in DOMAIN fieldMapping
                          /\ fieldMapping[k] \in DOMAIN row
                          /\ row[fieldMapping[k]] # <<>>
              IN  /\ held => text = row[fieldMapping[k]]
                  /\ ~held => text = <<"{", "{">> \o k \o <<"}", "}">>
                  /\ text # <<>>

\* the preview is shown for a row whose mapped cell is empty, next to a
\* field that has no column
C6_Witness ==
    /\ DialogOpen
    /\ LET tplFields == templateFieldsOf(templates, selectedTemplateId)
           row == currentRow(csvData, previewIndex)
       IN  /\ \E i \in DOMAIN tplFields :
                 /\ tplFields[i].field_key \in DOMAIN fieldMapping
                 /\ fieldMapping[tplFields[i].field_key] \in DOMAIN row
                 /\ row[fieldMapping[tplFields[i].field_key]] = <<>>
           /\ \E i \in DOMAIN tplFields :
                 tplFields[i].field_key \notin DOMAIN fieldMapping

\* C7: when a row-set is loaded, the mapping assigns each field key k of the
\* selected template the first header whose lower-cased text equals the
\* lower-cased k, leaves k unmapped when no header matches, and holds no
\* other entry.
C7_AutoMapping ==
    [][\A p \in parsing :
          CsvParseCompleteOf(p)
          => LET tplFields == templateFieldsOf(templates', selectedTemplateId')
                 keys == {tplFields[i].field_key : i \in DOMAIN tplFields}
                 First(k) == SelectSeq(csvHeaders',
                                       LAMBDA h : toLowerCase(h) = toLowerCase(k))
             IN  /\ \A k \in keys :
                       IF First(k) # <<>>
                       THEN /\ k \in DOMAIN fieldMapping'
                            /\ fieldMapping'[k] = Head(First(k))
                       ELSE k \notin DOMAIN fieldMapping'
                 /\ DOMAIN fieldMapping' \subseteq keys
      ]_vars

\* C8: for a row-set of one or more rows, every previous, next and picker
\* selection leaves the preview index in [0, rowCount-1]; previous at index 0
\* and next at index rowCount-1 leave the index unchanged.
C8_PreviewNavigation ==
    [][/\ (PreviewPrev \/ PreviewNext \/ PreviewPick) /\ Len(csvData) >= 1
          => previewIndex' \in 0..(Len(csvData) - 1)
       /\ handlePrev(0) = 0
       /\ Len(csvData) >= 1
          => handleNext(Len(csvData) - 1, csvData) = Len(csvData) - 1
      ]_vars

----------------------------------------------------------------------------
(* Further properties of the template editor *)

\* C11: adding a field (preset or custom) appends exactly one field to the
\* working set at (imageWidth/2, imageHeight/2) of the current image
\* dimensions, leaves the existing fields unchanged, and makes the new field
\* the active one (the field the selection designates).
C11_AddField ==
    [][\A preset \in FIELD_PRESETS \cup {Undefined}, now \in 0..MaxClock :
          (nOps' # nOps /\ AddFieldWith(preset, now))
          => /\ Len(fields') = Len(fields) + 1
             /\ SubSeq(fields', 1, Len(fields)) = fields
             /\ fields'[Len(fields')].x = RDiv(Num(imageDimensions.width), Num(2))
             /\ fields'[Len(fields')].y = RDiv(Num(imageDimensions.height), Num(2))
             /\ selectedFieldId' = fields'[Len(fields')].id
             /\ selectedField(fields', selectedFieldId') = fields'[Len(fields')]
      ]_vars

\* C12: every remote write that returns an error is surfaced: for each write
\* of the save sequence (template update or insert, deletion of the old
\* fields, insertion of the fields) and of the generation sequence (batch
\* insert, each certificate insert, final batch update), the error result
\* brings an error notification and the sequence does not report success.
C12_ErrorsSurfaced ==
    [][/\ (savePc = "update" /\ SaveUpdateDoneWith("error"))
          => editorToast' = "Error" /\ saveResult' # "success"
       /\ (savePc = "create" /\ SaveCreateDoneWith("error"))
          => editorToast' = "Error" /\ saveResult' # "success"
       /\ (savePc = "delete" /\ SaveDeleteDoneWith("error"))
          => editorToast' = "Error" /\ saveResult' # "success"
       /\ (savePc = "insert" /\ SaveInsertDoneWith("error"))
          => editorToast' = "Error" /\ saveResult' # "success"
       /\ (genPc = "batch" /\ GenBatchDoneWith("error"))
          => genToast' = "Error" /\ step' # 4
       /\ (genPc = "certificate" /\ GenCertificateDoneWith("error"))
          => genToast' = "Error" /\ step' # 4
       /\ (genPc = "update" /\ GenUpdateDoneWith("error"))
          => genToast' = "Error" /\ step' # 4
      ]_vars

\* C13: a save that fails on a remote error leaves the in-memory state as it
\* was: no step of the save sequence changes the fields, the name, the
\* description, the image reference, the dimensions or the selection, and the
\* step on which a write returns the error that fails the save puts the
\* saving flag back to false and does not navigate.
C13_FailedSaveKeepsState ==
    [][/\ (savePc # "idle" /\ (SaveUpdateDone \/ SaveDeleteDone
                               \/ SaveCreateDone \/ SaveInsertDone))
          => UNCHANGED <<fields, templateName, templateDescription, imageUrl,
                         imageDimensions, selectedFieldId>>
       /\ (nOps' # nOps /\ SaveMutate)
          => UNCHANGED <<fields, templateName, templateDescription, imageUrl,
                         imageDimensions, selectedFieldId>>
       /\ (savePc # "idle" /\ (SaveUpdateDoneWith("error")
                               \/ SaveCreateDoneWith("error")
                               \/ SaveInsertDoneWith("error")))
          => /\ saving /\ saving' = FALSE
             /\ route' = route
             /\ saveResult' = "error"
      ]_vars

\* a save of a non-empty working set has failed on its fields insert
C13_Witness ==
    /\ saveResult = "error"
    /\ Len(editorWrites) > 0
    /\ editorWrites[Len(editorWrites)] = "insert_fields"
    /\ ~saving /\ route = "editor"
    /\ fields = saveClosure.fields /\ Len(fields) > 0

----------------------------------------------------------------------------
(* Validation before remote calls *)

\* the component state of the Auth page
authFormVars == <<user, isLoading, email, password, fullName, magicLinkEmail,
                  authPc, route>>

\* C14: local validation precedes the remote calls: a save with an empty
\* name or without an image, and a sign-in, sign-up or magic-link request with
\* an invalid address or a password shorter than 6 characters, issues no
\* remote call, leaves the local state unchanged and shows an error
\* notification.
C14_ValidationFirst ==
    [][/\ (nOps' # nOps /\ SaveMutate /\ (templateName = "" \/ imageUrl = ""))
          => /\ editorWrites' = editorWrites
             /\ UNCHANGED <<templateName, templateDescription, imageUrl,
                            imageDimensions, fields, selectedFieldId, saving,
                            route, savePc, dbEditorVars>>
             /\ editorToast' = "Error"
       /\ (nSubmits' # nSubmits /\ HandleSignIn
             /\ (~emailSchema_ok(email) \/ Len(password) < 6))
          => /\ authCalls' = authCalls
             /\ UNCHANGED authFormVars
             /\ authToast'.title = "Validation Error"
       /\ (nSubmits' # nSubmits /\ HandleSignUp
             /\ (~emailSchema_ok(email) \/ Len(password) < 6))
          => /\ authCalls' = authCalls
             /\ UNCHANGED authFormVars
             /\ authToast'.title = "Validation Error"
       /\ (nSubmits' # nSubmits /\ HandleMagicLink
             /\ ~emailSchema_ok(magicLinkEmail))
          => /\ authCalls' = authCalls
             /\ UNCHANGED authFormVars
             /\ authToast'.title = "Validation Error"
      ]_vars

\* a sign-in was rejected for its five-character password, a later one went
\* through, and in the editor a save without name and image was rejected
C14_Witness ==
    /\ authToast = ValidationToast("Password must be at least 6 characters")
    /\ authCalls = <<"signIn">>
    /\ route = "editor"
    /\ saveResult = "error" /\ editorToast = "Error"
    /\ editorWrites = <<>>
    /\ templateName = "" /\ imageUrl = ""

----------------------------------------------------------------------------
(* The generation run *)

\* a step of a running handleGenerate: one of its writes returns
RunStep == genPc # "idle" /\ (GenBatchDone \/ GenCertificateDone \/ GenUpdateDone)

\* the counters of the stored batches do not decrease and total_count is not
\* changed; a created batch has the row count of its row-set as total_count
BatchCountersKept ==
    /\ Len(dbBatches') >= Len(dbBatches)
    /\ \A j \in DOMAIN dbBatches :
          /\ dbBatches'[j].total_count = dbBatches[j].total_count
          /\ dbBatches'[j].generated_count >= dbBatches[j].generated_count
          /\ dbBatches'[j].sent_count >= dbBatches[j].sent_count
          /\ dbBatches'[j].failed_count >= dbBatches[j].failed_count
    /\ \A j \in DOMAIN dbBatches' \ DOMAIN dbBatches :
          /\ dbBatches'[j].csv_data = genClosure.csvData
          /\ dbBatches'[j].total_count = Len(genClosure.csvData)

\* C15 as stated: the counters of a batch never decrease, total_count is the
\* number of rows at creation and is never changed, and within one run the
\* progress percentage is non-decreasing and is 100 when the run ends.
C15_CountersAndProgress ==
    [][/\ (dbBatches' # dbBatches) => BatchCountersKept
       /\ RunStep => generationProgress' >= generationProgress
       /\ (RunStep /\ genPc' = "idle") => generationProgress' = 100
      ]_vars

\* C15 amended: the counters of a batch never decrease, total_count is the
\* number of rows at creation and is never changed, and within one run the
\* progress percentage is non-decreasing and is 100 when a run whose batch
\* was created ends; a run whose batch insert fails ends at 0.
C15_CountersAndProgress_Amended ==
    [][/\ (dbBatches' # dbBatches) => BatchCountersKept
       /\ RunStep => generationProgress' >= generationProgress
       /\ (RunStep /\ genPc' = "idle")
          => generationProgress' = IF genPc = "batch" THEN 0 ELSE 100
      ]_vars

\* a run over three rows has ended: its batch is completed with its counters
C15_Witness ==
    /\ genPc = "idle" /\ nRuns > 0 /\ generationProgress = 100
    /\ Len(dbBatches) = 1
    /\ dbBatches[1].total_count = 3
    /\ dbBatches[1].generated_count = 3
    /\ Len(dbBatches[1].csv_data) = 3

\* the batch of the running handleGenerate is stored
RunBatchStored ==
    \E j \in DOMAIN dbBatches :
        /\ dbBatches[j].id = genClosure.batchId
        /\ dbBatches[j].status = "processing"

\* the write a running handleGenerate waits for, with the rows done so far
RunInOrder ==
    /\ genPc = "batch" => genClosure.i = 0
    /\ genPc = "certificate"
          => RunBatchStored /\ genClosure.i < Len(genClosure.csvData)
    /\ genPc = "update"
          => RunBatchStored /\ genClosure.i = Len(genClosure.csvData)

\* C16: the generation run is strictly sequential: a certificate insert is
\* awaited only once the batch is stored, the certificate inserts return one
\* at a time in row order (the insert of row i+1 is issued when the insert of
\* row i has returned), and the update of the batch is issued only when the
\* insert of the last row has returned.
C16_SequentialRun ==
    [][/\ (genPc' # "idle") => RunInOrder'
       /\ (genPc = "certificate" /\ genPc' # genPc) => genPc' = "update"
       /\ (genPc = "certificate" /\ GenCertificateDone)
          => /\ genClosure'.i = genClosure.i + 1
             /\ \/ dbCertificates' = dbCertificates
                \/ /\ Len(dbCertificates') = Len(dbCertificates) + 1
                   /\ SubSeq(dbCertificates', 1, Len(dbCertificates)) = dbCertificates
                   /\ dbCertificates'[Len(dbCertificates')].recipient_data
                         = genClosure.csvData[genClosure.i + 1]
                   /\ dbCertificates'[Len(dbCertificates')].batch_id
                         = genClosure.batchId
       /\ (dbCertificates' # dbCertificates) => genPc = "certificate"
       /\ (genPc' = "update" /\ genPc # "update") => genPc = "certificate"
      ]_vars

\* the inserts of three rows have returned in order and the update is awaited
C16_Witness ==
    /\ genPc = "update"
    /\ genClosure.i = 3
    /\ Len(dbCertificates) = 3
    /\ \A k \in 1..3 : dbCertificates[k].recipient_data = genClosure.csvData[k]

----------------------------------------------------------------------------
(* The designated columns of a row-set *)

\* C17: after every row-set load, a second load with another header
\* included, the delivery-address column is the first header whose
\* lower-cased name contains 'email', and is 'email' when no header does.
C17_EmailColumnAfterLoad ==
    [][\A p \in parsing :
          (parsing' # parsing /\ CsvParseCompleteOf(p))
          => emailColumn' =
                IF \E j \in DOMAIN p.headers :
                      includes(toLowerCase(p.headers[j]), S_email)
                THEN p.headers[CHOOSE j \in DOMAIN p.headers :
                        /\ includes(toLowerCase(p.headers[j]), S_email)
                        /\ \A k \in 1..(j - 1) :
                              ~includes(toLowerCase(p.headers[k]), S_email)]
                ELSE S_email
      ]_vars

\* the identity column: the column mapped to 'name' when that mapping is
\* defined, else the first header
IdentityColumn(mapping, headers) ==
    IF K_name \in DOMAIN mapping /\ Truthy(mapping[K_name])
    THEN mapping[K_name] ELSE Head(headers)

\* C18: the label of a row in the preview picker and the recipient_name
\* written to the row's certificate record are both the row's value under the
\* identity column (the column mapped to 'name' when that mapping is defined,
\* else the first header); stated for the rows that have a value there.
C18_IdentityColumn ==
    [][(/\ genPc = "certificate"
        /\ csvData = genClosure.csvData /\ fieldMapping = genClosure.fieldMapping
        /\ GenCertificateDoneWith("ok"))
       => LET row == csvData[genClosure.i + 1]
              column == IdentityColumn(fieldMapping, csvHeaders)
          IN  (column \in DOMAIN row /\ Truthy(row[column]))
              => /\ PickerLabel(row, fieldMapping, csvHeaders, genClosure.i)
                        = row[column]
                 /\ dbCertificates'[Len(dbCertificates')].recipient_name
                        = row[column]
      ]_vars

----------------------------------------------------------------------------
(* Keys and selection of the fields *)

\* no two fields of a list have the same field_key
UniqueKeys(fs) ==
    \A i, j \in DOMAIN fs : i # j => fs[i].field_key # fs[j].field_key

\* no two stored fields of one template have the same field_key
PersistedKeysUnique ==
    \A i, j \in DOMAIN dbFields :
        (i # j /\ dbFields[i].template_id = dbFields[j].template_id)
        => dbFields[i].field_key # dbFields[j].field_key

\* C19: field_key is unique within a template: no two fields of the editor's
\* working set, and no two stored fields of one template, have the same
\* field_key.
C19_UniqueFieldKey == UniqueKeys(fields) /\ PersistedKeysUnique

\* the fields that match the active selection
ActiveFields(fs, id) == {k \in DOMAIN fs : fs[k].id = id}

\* the fields that a step changes
ChangedFields == {k \in DOMAIN fields : k \in DOMAIN fields' /\ fields'[k] # fields[k]}

\* C20: at most one field is active at any time: at most one field of the
\* working set matches the active selection, and a property-panel edit or a
\* drag changes that one field only; also when two adds read the same clock
\* value for the temporary id.
C20_OneActiveField ==
    [][/\ Cardinality(ActiveFields(fields', selectedFieldId')) <= 1
       /\ \A updates \in PanelUpdates \cup TypedPosition :
             (nOps' # nOps /\ PanelEditWith(updates))
             => /\ Len(fields') = Len(fields)
                /\ Cardinality(ChangedFields) <= 1
                /\ ChangedFields \subseteq ActiveFields(fields, selectedFieldId)
       /\ \A i \in 1..Len(fields), drop \in DropPoints :
             (nOps' # nOps /\ DragEndAt(i, drop))
             => /\ Len(fields') = Len(fields)
                /\ ChangedFields \subseteq {i}
      ]_vars

----------------------------------------------------------------------------
(* Drag commit and the scale mapping *)

\* the index of the field the property panel edits
PanelIndex ==
    CHOOSE k \in DOMAIN fields :
        /\ fields[k].id = selectedFieldId
        /\ \A j \in 1..(k - 1) : fields[j].id # selectedFieldId

\* C21: a drag commit does not clamp: for a drop left of the canvas (negative)
\* and below it (beyond the image height), drag-end stores exactly the
\* model-space coordinate of the drop for the dragged field, and a number
\* typed into X or Y is stored as typed; no other field changes and no error
\* is raised.
C21_NoClamp ==
    [][/\ \A i \in 1..Len(fields), drop \in DropPoints :
             (nOps' # nOps /\ DragEndAt(i, drop))
             => /\ fields'[i].x = RDiv(Num(drop.x), EditorScale(imageDimensions))
                /\ fields'[i].y = RDiv(Num(drop.y), EditorScale(imageDimensions))
                /\ \A j \in DOMAIN fields : j # i => fields'[j] = fields[j]
                /\ editorToast' = editorToast
       /\ \A u \in TypedPosition :
             (nOps' # nOps /\ PanelEditWith(u))
             => /\ \A k \in DOMAIN u : fields'[PanelIndex][k] = u[k]
                /\ \A j \in DOMAIN fields : j # PanelIndex => fields'[j] = fields[j]
                /\ editorToast' = editorToast
      ]_vars

\* C22: round trip of the scale mapping: for every scale the editor produces
\* and every field position P, a drag that ends at the display position
\* D = P * scale stores a position equal to P.
C22_ScaleRoundTrip ==
    [][\A i \in 1..Len(fields) :
          (nOps' # nOps /\ DragBackAt(i))
          => /\ fields'[i].x = fields[i].x /\ fields'[i].y = fields[i].y
             /\ fields' = fields
      ]_vars

\* a label whose position is not a whole number of pixels, on a canvas scaled
\* by a factor that is not 1, after it was let go where it is drawn
C22_Witness ==
    /\ CanvasShown /\ nOps > 1
    /\ EditorScale(imageDimensions) # Num(1)
    /\ \E i \in 1..Len(fields) :
          /\ fields[i].x = Rat(725, 2)
          /\ TextAbsolute(fields[i], EditorScale(imageDimensions)).x
                # fields[i].x

----------------------------------------------------------------------------
(* The writes of a save *)

\* the writes that begin a save
FirstWrites == {"update_template", "insert_template"}

\* the writes of the save that was started last
WritesOfSave(ws) ==
    LET starts == {k \in DOMAIN ws : ws[k] \in FirstWrites}
    IN  IF starts = {} THEN <<>>
        ELSE SubSeq(ws, CHOOSE k \in starts : \A m \in starts : m <= k, Len(ws))

\* the stored template row holds what the save wrote
MetadataStored(c) ==
    \E j \in DOMAIN dbTemplates :
        /\ dbTemplates[j].id = c.templateId
        /\ dbTemplates[j].name = c.templateName
        /\ dbTemplates[j].description = c.templateDescription
        /\ dbTemplates[j].image_url = c.imageUrl
        /\ dbTemplates[j].image_width = c.imageDimensions.width
        /\ dbTemplates[j].image_height = c.imageDimensions.height

\* C23: no partial rollback and no automatic retry in a save: when the
\* insert of the fields fails after the template write succeeded, the stored
\* template keeps the metadata just written and no further write is issued;
\* a save is begun only by the user, and one save issues each write of its
\* sequence at most once.
C23_NoRollbackNoRetry ==
    [][/\ (savePc = "insert" /\ SaveInsertDoneWith("error"))
          => /\ MetadataStored(saveClosure) /\ MetadataStored(saveClosure)'
             /\ dbTemplates' = dbTemplates /\ dbFields' = dbFields
             /\ editorWrites' = editorWrites
             /\ savePc' = "idle"
       /\ (editorWrites' # editorWrites)
          => /\ Len(editorWrites') = Len(editorWrites) + 1
             /\ SubSeq(editorWrites', 1, Len(editorWrites)) = editorWrites
             /\ LET w == editorWrites'[Len(editorWrites')] IN
                IF w \in FirstWrites
                THEN savePc = "idle" /\ nOps' = nOps + 1 /\ SaveMutate
                ELSE \A k \in DOMAIN WritesOfSave(editorWrites) :
                        WritesOfSave(editorWrites)[k] # w
      ]_vars

\* a stored template was renamed, the update stored the new name and the
\* insert of the fields then failed
C23_Witness ==
    /\ isEditMode
    /\ saveResult = "error" /\ savePc = "idle"
    /\ WritesOfSave(editorWrites)
          = <<"update_template", "delete_fields", "insert_fields">>
    /\ saveClosure.templateName = "Award"
    /\ MetadataStored(saveClosure)

----------------------------------------------------------------------------
(* The end of a generation run *)

\* C24: every batch record a generation run created reaches a terminal
\* status: once the run has ended, with success or through a failed write,
\* the status of the batch is 'completed' or 'failed' and no longer
\* 'processing'.
C24_BatchTerminal ==
    (genPc = "idle")
        => \A j \in DOMAIN dbBatches :
              dbBatches[j].status \in {"completed", "failed"}

----------------------------------------------------------------------------
(* Failed saves and the stored rows *)

\* C25: a save that reports failure loses no persisted fields: when the
\* saves of an existing template made so far have all reported failure, the
\* stored field set of the template still contains every field it contained
\* before them.
C25_FailedSaveKeepsFields ==
    (isEditMode /\ saveResult = "error" /\ savePc = "idle")
        => \A before \in InitialFieldSets :
              \A k \in DOMAIN before :
                 \E j \in DOMAIN dbFields : dbFields[j] = before[k]

\* C26: in create mode, the save attempts of one editor session, a retry
\* after a failed fields insert included, persist at most one template record.
C26_OneTemplatePerSession ==
    ~isEditMode
        => Cardinality({j \in DOMAIN dbTemplates : dbTemplates[j].id # EditId}) <= 1

----------------------------------------------------------------------------
(* The selection *)

\* C27: the active selection is always valid: the selected field id is none
\* or the id of a field of the working set.
C27_SelectionValid ==
    selectedFieldId = Null \/ ActiveFields(fields, selectedFieldId) # {}

----------------------------------------------------------------------------
(* One generation run at a time *)

----------------------------------------------------------------------------
(* The steps of the wizard *)

\* C29: the wizard shows step 4 only if the batch created by the run has
\* status 'completed' with generated_count equal to the number of rows; step 3
\* is entered only through a completed row-set parse; 'Generate More' returns
\* to step 1 with the row-set, the headers, the field mapping and the selected
\* template all cleared.
C29_WizardSteps ==
    [][/\ (step # 4 /\ step' = 4)
          => /\ genPc # "idle"
             /\ \E j \in DOMAIN dbBatches' :
                   /\ dbBatches'[j].id = genClosure.batchId
                   /\ dbBatches'[j].status = "completed"
                   /\ dbBatches'[j].generated_count = Len(genClosure.csvData)
       /\ (step # 3 /\ step' = 3)
          => /\ parsing' # parsing
             /\ CsvParseComplete
       /\ GenerateMore
          => /\ step' = 1
             /\ csvData' = <<>>
             /\ csvHeaders' = <<>>
             /\ fieldMapping' = EmptyObject
             /\ selectedTemplateId' = NoTemplate
      ]_vars

----------------------------------------------------------------------------
(* The field mapping *)

\* C30: the field mapping is always well-formed: at step 3 every key is a
\* field_key of the currently selected template and every value is a header
\* of the currently loaded row-set.
C30_MappingWellFormed ==
    step = 3 =>
       LET tf == templateFieldsOf(templates, selectedTemplateId)
       IN  \A k \in DOMAIN fieldMapping :
              /\ \E i \in DOMAIN tf : tf[i].field_key = k
              /\ \E j \in DOMAIN csvHeaders : csvHeaders[j] = fieldMapping[k]

====
